---- MODULE Spec2Model ----
(***************************************************************************)
(* A model of the sales ETL pipeline: the row validator                    *)
(* (dags/src/validation, dags/src/utils/schemas.py), the orchestrator      *)
(* (dags/src/pipeline.py), the object-store moves                          *)
(* (dags/src/ingestion/minio_client.py) and the star-schema loader         *)
(* (dags/src/loading/postgres_loader.py).                                  *)
(*                                                                         *)
(* The specifications that share the module:                               *)
(*   SpecValidate       _validate_single_dataframe over bounded tables     *)
(*   SpecValidateRaise  the same, with schema calls that raise             *)
(*   SpecPipe           run_pipeline for one object key, with I/O faults   *)
(*   SpecLoad           upsert_data over a bounded table or chunk stream   *)
(*   SpecConcurrent     two loads at once on one database                  *)
(*   SpecNotify         the notification callbacks                         *)
(*   SpecTransform      _transform_single_dataframe, statement by statement*)
(*   SpecChunked        _process_chunked_data over a bounded chunk stream  *)
(*   SpecRedact         _redact_phone over bounded strings                 *)
(*   SpecKeys           the quarantine and archive keys of two source keys *)
(*                                                                         *)
(* Units: prices are integers in thousandths of the currency unit,         *)
(* ratings are integers in tenths, dates are day ordinals (NaT == 0).      *)
(***************************************************************************)
EXTENDS Integers, Sequences, FiniteSets, TLC

VARIABLES
    \* ---- _validate_single_dataframe (SpecValidate)
    v_pc,             \* "loop" | "returned"
    v_df,             \* the input DataFrame: a sequence of raw rows
    v_i,              \* position of the next row iterrows() yields (1-based)
    valid_records,    \* validator.py:61
    invalid_records,  \* validator.py:62
    v_unexpected,     \* index labels of the rows whose schema call raised
                      \* something other than ValidationError
    \* ---- run_pipeline (SpecPipe)
    pc,               \* the statement run_pipeline is at
    missing,          \* the credential the environment lacks, or "none"
    error,            \* the exception run_pipeline re-raised, or "none"
    run,              \* how many times the key has been triggered
    file_key,         \* the argument of run_pipeline
    bucket,           \* the object store: key -> object
    raw_data,         \* pipeline.py:197
    validation_result,\* pipeline.py:201
    valid_df,         \* pipeline.py:207
    invalid_df,       \* pipeline.py:207
    transformed_df,   \* pipeline.py:108
    calls,            \* the steps this run finished, in order, each with its outcome
    loaded,           \* the tables upsert_data has stored, in order
    \* ---- upsert_data (SpecLoad)
    l_pc,             \* the statement upsert_data is at
    db,               \* the committed rows of the four tables
    conn,             \* "none" | "open" | "closed": postgres_loader.py:405-421
    l_data,           \* the argument of upsert_data: the chunks of the batch
    chunk_num,        \* postgres_loader.py:456
    l_df,             \* the table _upsert_single_dataframe is working on
    attempts,         \* how many times upsert_data was called with data
    successes,        \* how many of those calls returned
    db0,              \* the database before the first call
    first_ok,         \* the database when the first call to return returned
    failed_dbs,       \* the databases that calls which raised left behind
    l_error,          \* the exception the last call raised, or "none"
    \* ---- two concurrent loads (SpecConcurrent)
    c_db,             \* the committed rows of the four tables
    c_pc,             \* run -> the step its load is at
    c_data,           \* run -> the table it loads
    c_df,             \* run -> the table with the id columns set so far
    \* ---- the notification callbacks (SpecNotify)
    n_pc,             \* the statement the callback is at
    n_callback,       \* which callback Airflow called
    n_context,        \* its argument
    n_mail,           \* subject and html_content
    n_sent,           \* the mails send_email delivered
    n_log,            \* what the callback logged
    \* ---- _transform_single_dataframe (SpecTransform)
    t_pc,             \* the statement the function is at
    t_heap,           \* the DataFrame objects: reference -> columns and rows
    t_df,             \* the reference the caller passed (its own table)
    t_local,          \* the reference the function's working name holds
    t_before,         \* the caller's table as it was when the call began
    t_result,         \* the reference returned, or 0
    \* ---- _process_chunked_data (SpecChunked)
    k_pc,             \* the statement the function is at
    k_source,         \* the chunks the reader yields, in order
    k_next,           \* how many chunks the validation generator has pulled
    valid_chunks,     \* pipeline.py:48
    invalid_chunks,   \* pipeline.py:49
    transformed_chunks, \* pipeline.py:65
    k_bucket,         \* the objects under quarantine/: key -> rows
    k_loaded,         \* the tables upsert_data has stored, in order
    k_log,            \* what was done to which chunk, in order
    k_error,          \* the exception the function raised, or "none"
    \* ---- _redact_phone (SpecRedact)
    r_pc,             \* "call" | "returned"
    r_phone,          \* the argument: a string, as the sequence of its characters
    r_result,         \* the value returned
    \* ---- the keys of a batch's objects (SpecKeys)
    q_pc,             \* "call" | "returned"
    q_keys,           \* the source keys of two batches
    q_result          \* their quarantine and archive keys

vvars == <<v_pc, v_df, v_i, valid_records, invalid_records, v_unexpected>>
pvars == <<pc, missing, error, run, file_key, bucket, raw_data, validation_result,
           valid_df, invalid_df,
           transformed_df, calls, loaded>>
lvars == <<l_pc, db, conn, l_data, chunk_num, l_df, attempts, successes, db0, first_ok, failed_dbs,
          l_error>>
cvars == <<c_db, c_pc, c_data, c_df>>
nvars == <<n_pc, n_callback, n_context, n_mail, n_sent, n_log>>
tvars == <<t_pc, t_heap, t_df, t_local, t_before, t_result>>
kvars == <<k_pc, k_source, k_next, valid_chunks, invalid_chunks, transformed_chunks,
           k_bucket, k_loaded, k_log, k_error>>
rvars == <<r_pc, r_phone, r_result>>
qvars == <<q_pc, q_keys, q_result>>
vars == <<vvars, pvars, lvars, cvars, nvars, tvars, kvars, rvars, qvars>>

----------------------------------------------------------------------------
(* Bounds of the model *)

\* rows of an input table given to the validator
MaxValidateRows == 2
\* rows of the object run_pipeline processes
MaxPipeRows == 2
\* times the scheduler triggers run_pipeline for the key
MaxRuns == 2
\* rows per chunk of a chunked read (10000 in minio_client.py:152, scaled down)
chunk_size == 1
\* rows of the batch given to upsert_data
MaxLoadRows == 2
\* times upsert_data is called with the same batch
MaxAttempts == 2

----------------------------------------------------------------------------
(* SalesRecord: dags/src/utils/schemas.py *)

NaT == 0

\* The declaration order of the SalesRecord fields; pydantic validates the
\* fields in this order and info.data holds only the fields validated so far.
FieldOrder ==
    << "order_id", "customer_name", "customer_email", "customer_phone",
       "customer_address", "product_title", "product_rating",
       "discounted_price", "original_price", "discount_percentage",
       "is_best_seller", "delivery_date", "data_collected_at",
       "product_category", "quantity", "order_date" >>

\* Addresses EmailStr accepts, among the addresses of the model.
WellFormedEmails == {"john@example.com", "jane@example.com"}

\* @field_validator("discounted_price", "original_price"): round(value, 2) != value
validate_prices(value) == value % 10 = 0

\* @field_validator("delivery_date"): TRUE when the validator returns, FALSE
\* when it raises.  data is info.data: the fields already validated.
validate_delivery_after_order(delivery, data) ==
    LET order_date_value ==
            IF "order_date" \in DOMAIN data THEN data["order_date"] ELSE NaT
    IN  ~ (order_date_value # NaT /\ delivery < order_date_value)

\* Whether field f of a row passes its Field(...) constraints and its
\* field validators, given info.data.
FieldAccepted(f, v, data) ==
    CASE f = "order_id"            -> Len(v) = 10
      [] f = "customer_name"       -> Len(v) >= 1 /\ Len(v) <= 255
      [] f = "customer_email"      -> v \in WellFormedEmails
      [] f = "customer_phone"      -> Len(v) >= 1 /\ Len(v) <= 50
      [] f = "customer_address"    -> Len(v) >= 1 /\ Len(v) <= 500
      [] f = "product_title"       -> Len(v) >= 1 /\ Len(v) <= 500
      [] f = "product_rating"      -> v >= 10 /\ v <= 50
      [] f = "discounted_price"    -> v > 0 /\ validate_prices(v)
      [] f = "original_price"      -> v > 0 /\ validate_prices(v)
      [] f = "discount_percentage" -> v >= 0 /\ v <= 100
      [] f = "is_best_seller"      -> v \in BOOLEAN
      [] f = "delivery_date"       -> v # NaT /\ validate_delivery_after_order(v, data)
      [] f = "data_collected_at"   -> v # NaT
      [] f = "product_category"    -> Len(v) >= 1 /\ Len(v) <= 100
      [] f = "quantity"            -> v >= 1
      [] f = "order_date"          -> v # NaT

\* schema(**record_dict): the fields are validated one after the other; an
\* accepted field joins info.data, a refused one joins the error list.
RECURSIVE ValidateFields(_, _, _, _)
ValidateFields(i, row, data, errors) ==
    IF i > Len(FieldOrder) THEN [data |-> data, errors |-> errors]
    ELSE LET f == FieldOrder[i]
         IN  IF FieldAccepted(f, row[f], data)
             THEN ValidateFields(i + 1, row, data @@ (f :> row[f]), errors)
             ELSE ValidateFields(i + 1, row, data, Append(errors, f))

SalesRecord(row) == ValidateFields(1, row, <<>>, <<>>)

----------------------------------------------------------------------------
(* Raw rows of the model *)

SampleRow ==
    [ order_id            |-> "ABC1234567",
      customer_name       |-> "John Doe",
      customer_email      |-> "john@example.com",
      customer_phone      |-> <<"5", "5", "5", "-", "1", "2", "3", "4">>,
      customer_address    |-> "123 Main St",
      product_title       |-> "Premium Laptop",
      product_rating      |-> 45,
      discounted_price    |-> 999990,
      original_price      |-> 1499990,
      discount_percentage |-> 33,
      is_best_seller      |-> TRUE,
      delivery_date       |-> 25,
      data_collected_at   |-> 1,
      product_category    |-> "Electronics",
      quantity            |-> 1,
      order_date          |-> 15 ]

\* Rows given to the validator: every combination of a good and a bad
\* order_id, quantity and discounted_price with two order dates and a
\* delivery date before, on or after them, or missing.
ValidateRows ==
    { [SampleRow EXCEPT !.order_id = o, !.quantity = q, !.discounted_price = p,
                        !.order_date = od, !.delivery_date = dd] :
        o \in {"ABC1234567", "SHORT"}, q \in {0, 1}, p \in {999990, 999999},
        od \in {15, 20}, dd \in {NaT, 15, 20} }

RECURSIVE SeqsUpTo(_, _)
SeqsUpTo(S, n) ==
    IF n = 0 THEN {<<>>}
    ELSE LET shorter == SeqsUpTo(S, n - 1)
         IN  shorter \cup {Append(s, x) : s \in {t \in shorter : Len(t) = n - 1}, x \in S}

----------------------------------------------------------------------------
(* _validate_single_dataframe: dags/src/validation/validator.py *)

\* The record the except branch appends: the raw row, the error text (the
\* offending fields, in order) and the row's index label.
InvalidRecord(row, errors, idx) ==
    [row |-> row, validation_error |-> errors, row_index |-> idx]

\* A loop body that loses the row the schema refuses.
ValidateRowStep_DropsRejected(row, idx, valids, invalids) ==
    LET res == SalesRecord(row)
    IN  IF res.errors = <<>>
        THEN [valid |-> Append(valids, res.data), invalid |-> invalids]
        ELSE [valid |-> valids, invalid |-> invalids]

\* One pass of the loop body over the row at position i (index label i - 1).
ValidateRowStep(row, idx, valids, invalids) ==
    LET res == SalesRecord(row)
    IN  IF res.errors = <<>>
        THEN [valid |-> Append(valids, res.data), invalid |-> invalids]
        ELSE [valid |-> valids,
              invalid |-> Append(invalids, InvalidRecord(row, res.errors, idx))]

RECURSIVE ValidateFrom(_, _, _, _, _)
ValidateFrom(df, i, base, valids, invalids) ==
    IF i > Len(df) THEN [valid |-> valids, invalid |-> invalids]
    ELSE LET r == ValidateRowStep(df[i], base + i - 1, valids, invalids)
         IN  ValidateFrom(df, i + 1, base, r.valid, r.invalid)

\* (valid_df, invalid_df) for a table whose first index label is base.
_validate_single_dataframe(df, base) == ValidateFrom(df, 1, base, <<>>, <<>>)

----------------------------------------------------------------------------
(* transform_sales_data: dags/src/transformation/transformer.py *)

\* hashlib.sha256(email.encode()).hexdigest() of the model's addresses
Sha256Hex ==
    ( "john@example.com" :>
        "855f96e983f1f8e8be944692b6f719fd54329826cb62e98015efee8e2e071dd4" ) @@
    ( "jane@example.com" :>
        "8c87b489ce35cf2e2f39f80e282cb2e804932a56a213983eeeb428407d43b52d" )

_hash_email(email) == Sha256Hex[email]

IsDigit(c) == c \in {"0", "1", "2", "3", "4", "5", "6", "7", "8", "9"}

PhoneMask == <<"*", "*", "*", "-", "*", "*", "*", "-">>

\* A redaction that keeps the last four characters, whatever they are.
_redact_phone_LastCharacters(phone) ==
    IF Len(phone) >= 4
    THEN PhoneMask \o SubSeq(phone, Len(phone) - 3, Len(phone))
    ELSE PhoneMask \o <<"*", "*", "*", "*">>

_redact_phone(phone) ==
    LET digits == SelectSeq(phone, IsDigit)
    IN  IF Len(digits) >= 4
        THEN PhoneMask \o SubSeq(digits, Len(digits) - 3, Len(digits))
        ELSE PhoneMask \o <<"*", "*", "*", "*">>

_redact_address(address) == "Address REDACTED"

\* round(x, 2) of an amount in thousandths
Round2(x) == LET r == x % 10 IN IF r < 5 THEN x - r ELSE x + (10 - r)

\* discounted_price - original_price * 0.6, in thousandths
_calculate_profit(discounted_price, original_price) ==
    discounted_price - (original_price * 6) \div 10

\* One row of _transform_single_dataframe: the copy of an accepted row with
\* the PII columns replaced, profit added and the monetary columns rounded.
TransformRow(r) ==
    [ order_id                  |-> r.order_id,
      customer_name             |-> r.customer_name,
      customer_email_hash       |-> _hash_email(r.customer_email),
      customer_phone_redacted   |-> _redact_phone(r.customer_phone),
      customer_address_redacted |-> _redact_address(r.customer_address),
      product_title             |-> r.product_title,
      product_rating            |-> r.product_rating,
      product_category          |-> r.product_category,
      is_best_seller            |-> r.is_best_seller,
      discounted_price          |-> Round2(r.discounted_price),
      original_price            |-> Round2(r.original_price),
      discount_percentage       |-> r.discount_percentage,
      profit                    |-> Round2(_calculate_profit(r.discounted_price,
                                                             r.original_price)),
      quantity                  |-> r.quantity,
      order_date                |-> r.order_date,
      delivery_date             |-> r.delivery_date,
      data_collected_at         |-> r.data_collected_at ]

_transform_single_dataframe(df) == [i \in 1..Len(df) |-> TransformRow(df[i])]

----------------------------------------------------------------------------
(* Object keys: dags/src/ingestion/minio_client.py *)
(* A key is the sequence of its "/"-separated segments.                    *)

RAW_PREFIX == "raw"
PROCESSED_PREFIX == "processed"
CHUNK_SIZE_THRESHOLD == 1073741824

\* source_key.startswith(RAW_PREFIX)
StartsWithRaw(key) == Len(key) >= 2 /\ key[1] = RAW_PREFIX

\* f"{destination_prefix}{source_key[len(RAW_PREFIX):]}"
DestinationKey(key) == <<PROCESSED_PREFIX>> \o Tail(key)

\* original_file_key.replace("raw/", ""): every segment "raw" that a "/"
\* follows is removed, wherever it stands.
RECURSIVE RemoveRaw(_)
RemoveRaw(key) ==
    IF Len(key) <= 1 THEN key
    ELSE IF Head(key) = RAW_PREFIX THEN RemoveRaw(Tail(key))
         ELSE <<Head(key)>> \o RemoveRaw(Tail(key))

\* f"quarantine/{filename}"
QuarantineKey(key) == <<"quarantine">> \o RemoveRaw(key)

\* number of tables a chunked read of n rows yields
NumChunks(n) == (n + chunk_size - 1) \div chunk_size

\* get_raw_data: a TextFileReader over the rows when the object is larger
\* than the threshold, one DataFrame otherwise.
get_raw_data(obj) ==
    IF obj.size > CHUNK_SIZE_THRESHOLD
    THEN [type |-> "TextFileReader", rows |-> obj.rows]
    ELSE [type |-> "DataFrame", rows |-> obj.rows]

----------------------------------------------------------------------------
(* run_pipeline: dags/src/pipeline.py *)

NoData == [type |-> "None"]
DataFrame(rows) == [type |-> "DataFrame", rows |-> rows]

Logged(step, ok) == calls' = Append(calls, [step |-> step, ok |-> ok])

\* except Exception as e: logger.error(...); raise
Raise(step, e) ==
    /\ pc' = "failed"
    /\ error' = e
    /\ Logged(step, FALSE)

\* what the run needs from its environment: the Vault token
\* (helpers.py:108-113), the MinIO access and secret key
\* (minio_client.py:51-52), the PostgreSQL user and password
\* (postgres_loader.py:46-47)
Credentials == {"vault token", "minio secret", "postgres secret"}

\* Step 1: get_vault_client()
GetVaultClient ==
    /\ pc = "get_vault_client"
    /\ IF missing = "vault token"
       THEN Raise("get_vault_client", "ValueError: Vault token not provided")
       ELSE \E ok \in BOOLEAN :
              IF ok THEN pc' = "get_minio_client" /\ Logged("get_vault_client", TRUE)
                         /\ UNCHANGED error
              ELSE Raise("get_vault_client", "ConnectionError")
    /\ UNCHANGED <<run, file_key, bucket, raw_data, validation_result, valid_df,
                   invalid_df, transformed_df, loaded>>
    /\ UNCHANGED <<missing, vvars, lvars, cvars, nvars, tvars, kvars, rvars, qvars>>

\* Step 2: get_minio_client(vault_client)
GetMinioClient ==
    /\ pc = "get_minio_client"
    /\ IF missing = "minio secret"
       THEN Raise("get_minio_client", "KeyError")
       ELSE \E ok \in BOOLEAN :
              IF ok THEN pc' = "get_object_size" /\ Logged("get_minio_client", TRUE)
                         /\ UNCHANGED error
              ELSE Raise("get_minio_client", "S3Error")
    /\ UNCHANGED <<run, file_key, bucket, raw_data, validation_result, valid_df,
                   invalid_df, transformed_df, loaded>>
    /\ UNCHANGED <<missing, vvars, lvars, cvars, nvars, tvars, kvars, rvars, qvars>>

\* Step 3: get_object_size(minio_client, file_key)
GetObjectSize ==
    /\ pc = "get_object_size"
    /\ \E ok \in BOOLEAN :
         IF ok /\ file_key \in DOMAIN bucket
         THEN pc' = "get_raw_data" /\ Logged("get_object_size", TRUE)
              /\ UNCHANGED error
         ELSE Raise("get_object_size", "S3Error")
    /\ UNCHANGED <<run, file_key, bucket, raw_data, validation_result, valid_df,
                   invalid_df, transformed_df, loaded>>
    /\ UNCHANGED <<missing, vvars, lvars, cvars, nvars, tvars, kvars, rvars, qvars>>

\* Step 4: raw_data = get_raw_data(minio_client, file_key)
GetRawData ==
    /\ pc = "get_raw_data"
    /\ \E ok \in BOOLEAN :
         IF ok /\ file_key \in DOMAIN bucket
         THEN /\ raw_data' = get_raw_data(bucket[file_key])
              /\ pc' = "validate_data"
              /\ Logged("get_raw_data", TRUE)
              /\ UNCHANGED error
         ELSE Raise("get_raw_data", "S3Error") /\ UNCHANGED raw_data
    /\ UNCHANGED <<run, file_key, bucket, validation_result, valid_df,
                   invalid_df, transformed_df, loaded>>
    /\ UNCHANGED <<missing, vvars, lvars, cvars, nvars, tvars, kvars, rvars, qvars>>

\* Step 5: validation_result = validate_data(raw_data, SalesRecord).  A
\* DataFrame is validated here; for an iterator the call only builds the
\* generator of _validate_chunked_dataframes.
ValidateData ==
    /\ pc = "validate_data"
    /\ validation_result' =
         IF raw_data.type = "DataFrame"
         THEN LET r == _validate_single_dataframe(raw_data.rows, 0)
              IN  [type |-> "tuple", valid |-> r.valid, invalid |-> r.invalid]
         ELSE [type |-> "generator", rows |-> raw_data.rows]
    /\ pc' = "dispatch"
    /\ Logged("validate_data", TRUE)
    /\ UNCHANGED <<error, run, file_key, bucket, raw_data, valid_df, invalid_df,
                   transformed_df, loaded>>
    /\ UNCHANGED <<missing, vvars, lvars, cvars, nvars, tvars, kvars, rvars, qvars>>

\* isinstance(raw_data, type(iter([]))): type(iter([])) is list_iterator,
\* and neither a DataFrame nor the TextFileReader of pd.read_csv is one.
IsListIterator(data) == data.type = "list_iterator"

\* the k-th (valid_df, invalid_df) pair the validation generator yields
ChunkPair(rows, k) ==
    LET first == (k - 1) * chunk_size + 1
        last == IF k * chunk_size < Len(rows) THEN k * chunk_size ELSE Len(rows)
        r == _validate_single_dataframe(SubSeq(rows, first, last), first - 1)
    IN  [type |-> "tuple", valid |-> r.valid, invalid |-> r.invalid]

\* Steps 6-8, lines 204-208: the else branch is taken for every raw_data
\* get_raw_data returns.  "valid_df, invalid_df = validation_result" unpacks
\* the 2-tuple of a DataFrame run; for a generator it draws the chunk pairs
\* and raises ValueError unless there are exactly two, which it binds to the
\* two names.
Dispatch ==
    /\ pc = "dispatch"
    /\ ~ IsListIterator(raw_data)
    /\ IF validation_result.type = "tuple"
       THEN /\ valid_df' = DataFrame(validation_result.valid)
            /\ invalid_df' = DataFrame(validation_result.invalid)
            /\ pc' = "quarantine"
            /\ UNCHANGED <<error, calls>>
       ELSE IF NumChunks(Len(validation_result.rows)) = 2
            THEN /\ valid_df' = ChunkPair(validation_result.rows, 1)
                 /\ invalid_df' = ChunkPair(validation_result.rows, 2)
                 /\ pc' = "quarantine"
                 /\ UNCHANGED <<error, calls>>
            ELSE /\ Raise("unpack", "ValueError: values to unpack")
                 /\ UNCHANGED <<valid_df, invalid_df>>
    /\ UNCHANGED <<run, file_key, bucket, raw_data, validation_result,
                   transformed_df, loaded>>
    /\ UNCHANGED <<missing, vvars, lvars, cvars, nvars, tvars, kvars, rvars, qvars>>

\* A quarantine step that goes on without writing the refused rows.
Quarantine_SkipsWrite ==
    /\ pc = "quarantine"
    /\ IF invalid_df.type # "DataFrame"
       THEN Raise("_process_single_dataframe", "AttributeError")
       ELSE pc' = "check_valid" /\ UNCHANGED <<error, calls>>
    /\ UNCHANGED <<run, file_key, bucket, raw_data, validation_result, valid_df,
                   invalid_df, transformed_df, loaded>>
    /\ UNCHANGED <<missing, vvars, lvars, cvars, nvars, tvars, kvars, rvars, qvars>>

\* _process_single_dataframe, lines 96-99, with save_invalid_data_to_quarantine:
\* invalid_df.empty raises AttributeError on a tuple.
Quarantine ==
    /\ pc = "quarantine"
    /\ IF invalid_df.type # "DataFrame"
       THEN Raise("_process_single_dataframe", "AttributeError") /\ UNCHANGED bucket
       ELSE IF invalid_df.rows = <<>>
            THEN pc' = "check_valid" /\ UNCHANGED <<error, calls, bucket>>
            ELSE \E ok \in BOOLEAN :
                   IF ok
                   THEN /\ bucket' = (QuarantineKey(file_key) :>
                                        [size |-> Len(invalid_df.rows),
                                         rows |-> invalid_df.rows]) @@ bucket
                        /\ pc' = "check_valid"
                        /\ Logged("save_invalid_data_to_quarantine", TRUE)
                        /\ UNCHANGED error
                   ELSE /\ Raise("save_invalid_data_to_quarantine", "S3Error")
                        /\ UNCHANGED bucket
    /\ UNCHANGED <<run, file_key, raw_data, validation_result, valid_df,
                   invalid_df, transformed_df, loaded>>
    /\ UNCHANGED <<missing, vvars, lvars, cvars, nvars, tvars, kvars, rvars, qvars>>

\* A check that lets an empty valid_df through.
CheckValid_Continues ==
    /\ pc = "check_valid"
    /\ pc' = "transform_sales_data"
    /\ UNCHANGED <<error, calls>>
    /\ UNCHANGED <<run, file_key, bucket, raw_data, validation_result, valid_df,
                   invalid_df, transformed_df, loaded>>
    /\ UNCHANGED <<missing, vvars, lvars, cvars, nvars, tvars, kvars, rvars, qvars>>

\* _process_single_dataframe, lines 102-104
CheckValid ==
    /\ pc = "check_valid"
    /\ IF valid_df.rows = <<>>
       THEN Raise("_process_single_dataframe", "ValueError: All records failed validation")
       ELSE pc' = "transform_sales_data" /\ UNCHANGED <<error, calls>>
    /\ UNCHANGED <<run, file_key, bucket, raw_data, validation_result, valid_df,
                   invalid_df, transformed_df, loaded>>
    /\ UNCHANGED <<missing, vvars, lvars, cvars, nvars, tvars, kvars, rvars, qvars>>

\* A transform step that loses the last accepted row.
Transform_DropsRow ==
    /\ pc = "transform_sales_data"
    /\ transformed_df' =
         DataFrame(_transform_single_dataframe(
                       SubSeq(valid_df.rows, 1, Len(valid_df.rows) - 1)))
    /\ pc' = "upsert_data"
    /\ Logged("transform_sales_data", TRUE)
    /\ UNCHANGED <<error, run, file_key, bucket, raw_data, validation_result,
                   valid_df, invalid_df, loaded>>
    /\ UNCHANGED <<missing, vvars, lvars, cvars, nvars, tvars, kvars, rvars, qvars>>

\* _process_single_dataframe, line 108
Transform ==
    /\ pc = "transform_sales_data"
    /\ transformed_df' = DataFrame(_transform_single_dataframe(valid_df.rows))
    /\ pc' = "upsert_data"
    /\ Logged("transform_sales_data", TRUE)
    /\ UNCHANGED <<error, run, file_key, bucket, raw_data, validation_result,
                   valid_df, invalid_df, loaded>>
    /\ UNCHANGED <<missing, vvars, lvars, cvars, nvars, tvars, kvars, rvars, qvars>>

\* A load whose error is logged and swallowed.
UpsertData_SwallowsError ==
    /\ pc = "upsert_data"
    /\ \E ok \in BOOLEAN :
         IF ok
         THEN loaded' = Append(loaded, transformed_df.rows)
              /\ Logged("upsert_data", TRUE)
         ELSE UNCHANGED loaded /\ Logged("upsert_data", FALSE)
    /\ pc' = "move_processed_file"
    /\ UNCHANGED <<error, run, file_key, bucket, raw_data, validation_result,
                   valid_df, invalid_df, transformed_df>>
    /\ UNCHANGED <<missing, vvars, lvars, cvars, nvars, tvars, kvars, rvars, qvars>>

\* _process_single_dataframe, line 112; the database is abstracted to the
\* list of tables stored (SpecLoad models the loader itself).  upsert_data
\* reads the PostgreSQL credentials when it connects
\* (postgres_loader.py:408 -> 76 -> 46-47).
UpsertData ==
    /\ pc = "upsert_data"
    /\ IF missing = "postgres secret"
       THEN Raise("upsert_data", "KeyError") /\ UNCHANGED loaded
       ELSE \E ok \in BOOLEAN :
              IF ok
              THEN /\ loaded' = Append(loaded, transformed_df.rows)
                   /\ pc' = "move_processed_file"
                   /\ Logged("upsert_data", TRUE)
                   /\ UNCHANGED error
              ELSE Raise("upsert_data", "psycopg2.Error") /\ UNCHANGED loaded
    /\ UNCHANGED <<run, file_key, bucket, raw_data, validation_result, valid_df,
                   invalid_df, transformed_df>>
    /\ UNCHANGED <<missing, vvars, lvars, cvars, nvars, tvars, kvars, rvars, qvars>>

\* A copy step that goes on to the removal when copy_object has failed.
MoveCopy_IgnoresFailure ==
    /\ pc = "move_processed_file"
    /\ IF ~ StartsWithRaw(file_key)
       THEN Raise("move_processed_file", "ValueError: Source key") /\ UNCHANGED bucket
       ELSE \E ok \in BOOLEAN :
              /\ bucket' = IF ok /\ file_key \in DOMAIN bucket
                           THEN (DestinationKey(file_key) :> bucket[file_key]) @@
                                  [k \in DOMAIN bucket \ {DestinationKey(file_key)}
                                      |-> bucket[k]]
                           ELSE bucket
              /\ pc' = "remove_object"
              /\ Logged("copy_object", ok)
              /\ UNCHANGED error
    /\ UNCHANGED <<run, file_key, raw_data, validation_result, valid_df,
                   invalid_df, transformed_df, loaded>>
    /\ UNCHANGED <<missing, vvars, lvars, cvars, nvars, tvars, kvars, rvars, qvars>>

\* Step 9, move_processed_file lines 256-270: the prefix check and copy_object
MoveCopy ==
    /\ pc = "move_processed_file"
    /\ IF ~ StartsWithRaw(file_key)
       THEN Raise("move_processed_file", "ValueError: Source key") /\ UNCHANGED bucket
       ELSE \E ok \in BOOLEAN :
              IF ok /\ file_key \in DOMAIN bucket
              THEN /\ bucket' = (DestinationKey(file_key) :> bucket[file_key]) @@
                                  [k \in DOMAIN bucket \ {DestinationKey(file_key)}
                                      |-> bucket[k]]
                   /\ pc' = "remove_object"
                   /\ Logged("copy_object", TRUE)
                   /\ UNCHANGED error
              ELSE Raise("copy_object", "S3Error") /\ UNCHANGED bucket
    /\ UNCHANGED <<run, file_key, raw_data, validation_result, valid_df,
                   invalid_df, transformed_df, loaded>>
    /\ UNCHANGED <<missing, vvars, lvars, cvars, nvars, tvars, kvars, rvars, qvars>>

\* move_processed_file lines 273-276: remove_object, then run_pipeline returns
MoveRemove ==
    /\ pc = "remove_object"
    /\ \E ok \in BOOLEAN :
         IF ok
         THEN /\ bucket' = [k \in DOMAIN bucket \ {file_key} |-> bucket[k]]
              /\ pc' = "done"
              /\ Logged("remove_object", TRUE)
              /\ UNCHANGED error
         ELSE Raise("remove_object", "S3Error") /\ UNCHANGED bucket
    /\ UNCHANGED <<run, file_key, raw_data, validation_result, valid_df,
                   invalid_df, transformed_df, loaded>>
    /\ UNCHANGED <<missing, vvars, lvars, cvars, nvars, tvars, kvars, rvars, qvars>>

\* The scheduler triggers run_pipeline again for a key whose run failed.
Retrigger ==
    /\ pc = "failed"
    /\ run < MaxRuns
    /\ run' = run + 1
    /\ pc' = "get_vault_client"
    /\ error' = "none"
    /\ calls' = <<>>
    /\ raw_data' = NoData
    /\ validation_result' = NoData
    /\ valid_df' = NoData
    /\ invalid_df' = NoData
    /\ transformed_df' = NoData
    /\ UNCHANGED <<file_key, bucket, loaded>>
    /\ UNCHANGED <<missing, vvars, lvars, cvars, nvars, tvars, kvars, rvars, qvars>>

----------------------------------------------------------------------------
(* The star schema and its loader: dags/src/loading/postgres_loader.py     *)
(* A table is the set of its committed rows.  The created_at / updated_at  *)
(* columns and the calendar attributes derived from dim_date.date are      *)
(* left out.                                                               *)

NaN == 0

EmptyDB ==
    [dim_customer |-> {}, dim_product |-> {}, dim_date |-> {}, fact_sales |-> {}]

\* The surrogate key the database gives a newly inserted row: the next
\* integer after the keys in use.
NextId(ids) == IF ids = {} THEN 1 ELSE (CHOOSE m \in ids : \A x \in ids : x <= m) + 1

\* a table read for loading: the id columns are not set yet
WithIdColumns(rows) ==
    [i \in 1..Len(rows) |->
        rows[i] @@ [customer_id |-> NaN, product_id |-> NaN,
                    order_date_id |-> NaN, delivery_date_id |-> NaN]]

\* df[...].drop_duplicates(subset=["customer_email_hash"]): the first row of
\* every email hash, in table order
RECURSIVE CustomersOf(_)
CustomersOf(t) ==
    IF t = <<>> THEN <<>>
    ELSE LET init == SubSeq(t, 1, Len(t) - 1)
             last == t[Len(t)]
         IN  IF \E i \in 1..Len(init) :
                    init[i].customer_email_hash = last.customer_email_hash
             THEN CustomersOf(init)
             ELSE Append(CustomersOf(init), last)

\* drop_duplicates(subset=["product_title", "product_category"])
RECURSIVE ProductsOf(_)
ProductsOf(t) ==
    IF t = <<>> THEN <<>>
    ELSE LET init == SubSeq(t, 1, Len(t) - 1)
             last == t[Len(t)]
         IN  IF \E i \in 1..Len(init) :
                    /\ init[i].product_title = last.product_title
                    /\ init[i].product_category = last.product_category
             THEN ProductsOf(init)
             ELSE Append(ProductsOf(init), last)

\* the values of a sequence without repetition, in order of first appearance
RECURSIVE Unique(_)
Unique(q) ==
    IF q = <<>> THEN <<>>
    ELSE LET init == SubSeq(q, 1, Len(q) - 1)
             last == q[Len(q)]
         IN  IF \E i \in 1..Len(init) : init[i] = last
             THEN Unique(init)
             ELSE Append(Unique(init), last)

\* A date list that leaves out the delivery dates.
DatesOf_OrderDatesOnly(t) ==
    Unique(SelectSeq([i \in 1..Len(t) |-> t[i].order_date],
                     LAMBDA d : d # NaT))

\* pd.concat([df["order_date"], df["delivery_date"]]).dropna().unique()
DatesOf(t) ==
    Unique(SelectSeq([i \in 1..Len(t) |-> t[i].order_date] \o
                     [i \in 1..Len(t) |-> t[i].delivery_date],
                     LAMBDA d : d # NaT))

\* An insert that ignores the unique constraint on email_hash.
InsertCustomer_NoConflictClause(tbl, row) ==
    tbl \cup { [ customer_id      |-> NextId({r.customer_id : r \in tbl}),
                 customer_name    |-> row.customer_name,
                 email_hash       |-> row.customer_email_hash,
                 phone_redacted   |-> row.customer_phone_redacted,
                 address_redacted |-> row.customer_address_redacted ] }

\* INSERT INTO dim_customer ... ON CONFLICT (email_hash) DO UPDATE SET ...
InsertCustomer(tbl, row) ==
    IF \E r \in tbl : r.email_hash = row.customer_email_hash
    THEN { IF r.email_hash = row.customer_email_hash
           THEN [r EXCEPT !.customer_name = row.customer_name,
                          !.phone_redacted = row.customer_phone_redacted,
                          !.address_redacted = row.customer_address_redacted]
           ELSE r : r \in tbl }
    ELSE tbl \cup { [ customer_id      |-> NextId({r.customer_id : r \in tbl}),
                      customer_name    |-> row.customer_name,
                      email_hash       |-> row.customer_email_hash,
                      phone_redacted   |-> row.customer_phone_redacted,
                      address_redacted |-> row.customer_address_redacted ] }

\* A statement that returns the id of some customer row.
ReturnedCustomerId_AnyRow(tbl, row) ==
    (CHOOSE r \in tbl : TRUE).customer_id

\* RETURNING customer_id
ReturnedCustomerId(tbl, row) ==
    (CHOOSE r \in tbl : r.email_hash = row.customer_email_hash).customer_id

\* An insert that ignores the unique constraint on (title, category).
InsertProduct_NoConflictClause(tbl, row) ==
    tbl \cup { [ product_id       |-> NextId({r.product_id : r \in tbl}),
                 product_title    |-> row.product_title,
                 product_rating   |-> row.product_rating,
                 product_category |-> row.product_category,
                 is_best_seller   |-> row.is_best_seller ] }

\* An upsert that replaces the row of a known product by a new row.
InsertProduct_DeleteAndInsert(tbl, row) ==
    {r \in tbl : ~(/\ r.product_title = row.product_title
                    /\ r.product_category = row.product_category)}
        \cup { [ product_id       |-> NextId({r.product_id : r \in tbl}),
                 product_title    |-> row.product_title,
                 product_rating   |-> row.product_rating,
                 product_category |-> row.product_category,
                 is_best_seller   |-> row.is_best_seller ] }

\* INSERT INTO dim_product ... ON CONFLICT (product_title, product_category)
\* DO UPDATE SET ...
InsertProduct(tbl, row) ==
    IF \E r \in tbl : /\ r.product_title = row.product_title
                      /\ r.product_category = row.product_category
    THEN { IF /\ r.product_title = row.product_title
              /\ r.product_category = row.product_category
           THEN [r EXCEPT !.product_rating = row.product_rating,
                          !.is_best_seller = row.is_best_seller]
           ELSE r : r \in tbl }
    ELSE tbl \cup { [ product_id       |-> NextId({r.product_id : r \in tbl}),
                      product_title    |-> row.product_title,
                      product_rating   |-> row.product_rating,
                      product_category |-> row.product_category,
                      is_best_seller   |-> row.is_best_seller ] }

\* RETURNING product_id
ReturnedProductId(tbl, row) ==
    (CHOOSE r \in tbl : /\ r.product_title = row.product_title
                        /\ r.product_category = row.product_category).product_id

\* INSERT INTO dim_date ... ON CONFLICT (date) DO NOTHING
InsertDate(tbl, d) ==
    IF \E r \in tbl : r.date = d THEN tbl
    ELSE tbl \cup { [date_id |-> NextId({r.date_id : r \in tbl}), date |-> d] }

\* date_mapping.get(pd.to_datetime(x).date()) if pd.notna(x) else None
DateId(tbl, d) ==
    IF d # NaT /\ \E r \in tbl : r.date = d
    THEN (CHOOSE r \in tbl : r.date = d).date_id
    ELSE NaN

\* the VALUES tuple of the fact insert, lines 363-375
FactRow(row) ==
    [ order_id            |-> row.order_id,
      customer_id         |-> row.customer_id,
      product_id          |-> row.product_id,
      order_date_id       |-> row.order_date_id,
      delivery_date_id    |-> row.delivery_date_id,
      quantity            |-> row.quantity,
      discounted_price    |-> row.discounted_price,
      original_price      |-> row.original_price,
      discount_percentage |-> row.discount_percentage,
      profit              |-> row.profit,
      data_collected_at   |-> row.data_collected_at ]

\* An insert that leaves the row of a known order as it is.
InsertFact_DoNothing(tbl, row) ==
    IF \E r \in tbl : r.order_id = row.order_id THEN tbl
    ELSE tbl \cup {FactRow(row)}

\* An insert that ignores the unique constraint on order_id.
InsertFact_NoConflictClause(tbl, row) == tbl \cup {FactRow(row)}

\* INSERT INTO fact_sales ... ON CONFLICT (order_id) DO UPDATE SET ...
InsertFact(tbl, row) ==
    {r \in tbl : r.order_id # row.order_id} \cup {FactRow(row)}

\* upsert_dimension_customer, lines 136-176: the table after the commit and
\* the DataFrame with its customer_id column
RECURSIVE CustomerLoop(_, _, _)
CustomerLoop(tbl, t, customers) ==
    IF customers = <<>> THEN [tbl |-> tbl, df |-> t]
    ELSE LET row == Head(customers)
             tbl2 == InsertCustomer(tbl, row)
             customer_id == ReturnedCustomerId(tbl2, row)
             t2 == [i \in 1..Len(t) |->
                      IF t[i].customer_email_hash = row.customer_email_hash
                      THEN [t[i] EXCEPT !.customer_id = customer_id]
                      ELSE t[i]]
         IN  CustomerLoop(tbl2, t2, Tail(customers))

upsert_dimension_customer(tbl, t) == CustomerLoop(tbl, t, CustomersOf(t))

\* upsert_dimension_product, lines 208-242
RECURSIVE ProductLoop(_, _, _)
ProductLoop(tbl, t, products) ==
    IF products = <<>> THEN [tbl |-> tbl, df |-> t]
    ELSE LET row == Head(products)
             tbl2 == InsertProduct(tbl, row)
             product_id == ReturnedProductId(tbl2, row)
             t2 == [i \in 1..Len(t) |->
                      IF /\ t[i].product_title = row.product_title
                         /\ t[i].product_category = row.product_category
                      THEN [t[i] EXCEPT !.product_id = product_id]
                      ELSE t[i]]
         IN  ProductLoop(tbl2, t2, Tail(products))

upsert_dimension_product(tbl, t) == ProductLoop(tbl, t, ProductsOf(t))

\* upsert_dimension_date, lines 274-312
RECURSIVE DateLoop(_, _)
DateLoop(tbl, dates) ==
    IF dates = <<>> THEN tbl
    ELSE DateLoop(InsertDate(tbl, Head(dates)), Tail(dates))

upsert_dimension_date(tbl, t) ==
    LET tbl2 == DateLoop(tbl, DatesOf(t))
    IN  [tbl |-> tbl2,
         df |-> [i \in 1..Len(t) |->
                   [t[i] EXCEPT !.order_date_id = DateId(tbl2, t[i].order_date),
                                !.delivery_date_id = DateId(tbl2, t[i].delivery_date)]]]

\* upsert_fact_sales, lines 340-378
RECURSIVE FactLoop(_, _)
FactLoop(tbl, t) ==
    IF t = <<>> THEN tbl
    ELSE FactLoop(InsertFact(tbl, Head(t)), Tail(t))

upsert_fact_sales(tbl, t) == FactLoop(tbl, t)

\* _upsert_single_dataframe with every step committing: the database after
\* the four steps
UpsertSingle(d, rows) ==
    LET c == upsert_dimension_customer(d.dim_customer, WithIdColumns(rows))
        p == upsert_dimension_product(d.dim_product, c.df)
        t == upsert_dimension_date(d.dim_date, p.df)
    IN  [ dim_customer |-> c.tbl,
          dim_product  |-> p.tbl,
          dim_date     |-> t.tbl,
          fact_sales   |-> upsert_fact_sales(d.fact_sales, t.df) ]

\* _upsert_chunked_dataframes with every step committing
RECURSIVE UpsertChunks(_, _)
UpsertChunks(d, chunks) ==
    IF chunks = <<>> THEN d
    ELSE UpsertChunks(UpsertSingle(d, Head(chunks)), Tail(chunks))

NoDB == [dim_customer |-> {}, dim_product |-> {}, dim_date |-> {},
         fact_sales |-> {}, none |-> TRUE]

\* what a step can raise: a database error, which the step answers with a
\* rollback, or any other exception, which no step catches
ErrorKinds == {"psycopg2.Error", "Exception"}

\* A finally clause that leaves the connection as it is.
LoadRaise_LeavesOpen ==
    /\ l_pc' = "failed"
    /\ conn' = conn
    /\ failed_dbs' = failed_dbs \cup {db}
    /\ \E e \in ErrorKinds : l_error' = e

\* finally: if conn: conn.close(); the exception goes on to the caller
LoadRaise ==
    /\ l_pc' = "failed"
    /\ conn' = IF conn = "open" THEN "closed" ELSE conn
    /\ failed_dbs' = failed_dbs \cup {db}
    /\ \E e \in ErrorKinds : l_error' = e

\* upsert_data, lines 405-408: get_postgres_connection
OpenConnection ==
    /\ l_pc = "connect"
    /\ \E ok \in BOOLEAN :
         IF ok
         THEN /\ conn' = "open"
              /\ l_pc' = "customer"
              /\ chunk_num' = 1
              /\ l_df' = WithIdColumns(l_data[1])
              /\ UNCHANGED <<failed_dbs, l_error>>
         ELSE /\ LoadRaise
              /\ UNCHANGED <<chunk_num, l_df>>
    /\ UNCHANGED <<db, l_data, attempts, successes, db0, first_ok>>
    /\ UNCHANGED <<vvars, pvars, cvars, nvars, tvars, kvars, rvars, qvars>>

\* upsert_dimension_customer: the loop, then commit; or an error, rollback
\* and raise
UpsertCustomer ==
    /\ l_pc = "customer"
    /\ \E ok \in BOOLEAN :
         IF ok
         THEN LET r == upsert_dimension_customer(db.dim_customer, l_df)
              IN  /\ db' = [db EXCEPT !.dim_customer = r.tbl]
                  /\ l_df' = r.df
                  /\ l_pc' = "product"
                  /\ UNCHANGED <<conn, failed_dbs, l_error>>
         ELSE LoadRaise /\ UNCHANGED <<db, l_df>>
    /\ UNCHANGED <<l_data, chunk_num, attempts, successes, db0, first_ok>>
    /\ UNCHANGED <<vvars, pvars, cvars, nvars, tvars, kvars, rvars, qvars>>

\* upsert_dimension_product
UpsertProduct ==
    /\ l_pc = "product"
    /\ \E ok \in BOOLEAN :
         IF ok
         THEN LET r == upsert_dimension_product(db.dim_product, l_df)
              IN  /\ db' = [db EXCEPT !.dim_product = r.tbl]
                  /\ l_df' = r.df
                  /\ l_pc' = "date"
                  /\ UNCHANGED <<conn, failed_dbs, l_error>>
         ELSE LoadRaise /\ UNCHANGED <<db, l_df>>
    /\ UNCHANGED <<l_data, chunk_num, attempts, successes, db0, first_ok>>
    /\ UNCHANGED <<vvars, pvars, cvars, nvars, tvars, kvars, rvars, qvars>>

\* upsert_dimension_date: the inserts and the commit of line 298, then the
\* SELECT of lines 301-302 that fills the id columns; an error before the
\* commit rolls the inserts back, an error in the SELECT finds them committed
UpsertDate ==
    /\ l_pc = "date"
    /\ \E outcome \in {"returns", "insert raises", "select raises"} :
         LET r == upsert_dimension_date(db.dim_date, l_df)
         IN  CASE outcome = "returns" ->
                    /\ db' = [db EXCEPT !.dim_date = r.tbl]
                    /\ l_df' = r.df
                    /\ l_pc' = "fact"
                    /\ UNCHANGED <<conn, failed_dbs, l_error>>
               [] outcome = "insert raises" ->
                    /\ LoadRaise
                    /\ UNCHANGED <<db, l_df>>
               [] outcome = "select raises" ->
                    /\ db' = [db EXCEPT !.dim_date = r.tbl]
                    /\ l_pc' = "failed"
                    /\ conn' = "closed"
                    /\ failed_dbs' = failed_dbs \cup {db'}
                    /\ \E e \in ErrorKinds : l_error' = e
                    /\ UNCHANGED l_df
    /\ UNCHANGED <<l_data, chunk_num, attempts, successes, db0, first_ok>>
    /\ UNCHANGED <<vvars, pvars, cvars, nvars, tvars, kvars, rvars, qvars>>

\* upsert_fact_sales, then the next chunk of the iterator, or the return of
\* upsert_data through its finally clause
UpsertFact ==
    /\ l_pc = "fact"
    /\ \E ok \in BOOLEAN :
         IF ok
         THEN /\ db' = [db EXCEPT !.fact_sales = upsert_fact_sales(db.fact_sales, l_df)]
              /\ UNCHANGED <<failed_dbs, l_error>>
              /\ IF chunk_num < Len(l_data)
                 THEN /\ chunk_num' = chunk_num + 1
                      /\ l_df' = WithIdColumns(l_data[chunk_num + 1])
                      /\ l_pc' = "customer"
                      /\ UNCHANGED <<conn, successes, first_ok>>
                 ELSE /\ l_pc' = "done"
                      /\ conn' = "closed"
                      /\ successes' = successes + 1
                      /\ first_ok' = IF successes = 0 THEN db' ELSE first_ok
                      /\ UNCHANGED <<chunk_num, l_df>>
         ELSE LoadRaise /\ UNCHANGED <<db, l_df, chunk_num, successes, first_ok>>
    /\ UNCHANGED <<l_data, attempts, db0>>
    /\ UNCHANGED <<vvars, pvars, cvars, nvars, tvars, kvars, rvars, qvars>>

\* the caller runs the batch again from the start
Reload ==
    /\ l_pc \in {"done", "failed"}
    /\ attempts < MaxAttempts
    /\ attempts' = attempts + 1
    /\ l_pc' = "connect"
    /\ conn' = "none"
    /\ chunk_num' = 0
    /\ l_df' = <<>>
    /\ l_error' = "none"
    /\ UNCHANGED <<db, l_data, successes, db0, first_ok, failed_dbs>>
    /\ UNCHANGED <<vvars, pvars, cvars, nvars, tvars, kvars, rvars, qvars>>

----------------------------------------------------------------------------
(* The notification callbacks: dags/src/utils/notifications.py             *)

\* context.get(key) is not None
Has(context, key) == key \in DOMAIN context

\* lines 26-33 and 75-84: the fields of the mail, with their defaults
dag_id(context) ==
    IF Has(context, "dag") THEN context["dag"].dag_id ELSE "Unknown DAG"

task_id(context) ==
    IF Has(context, "task_instance")
    THEN context["task_instance"].task_id ELSE "Unknown Task"

execution_date(context) ==
    IF Has(context, "execution_date")
    THEN <<"isoformat", context["execution_date"]>> ELSE "Unknown Date"

exception(context) ==
    IF Has(context, "exception") THEN context["exception"]
    ELSE "No exception details available"

log_url(context) ==
    IF Has(context, "task_instance")
    THEN context["task_instance"].log_url ELSE "#"

\* lines 35-49 and 86-102: subject and html_content
NotifyFormat ==
    /\ n_pc = "format"
    /\ n_mail' =
         IF n_callback = "send_success_notification"
         THEN [subject |-> <<"Success", dag_id(n_context), task_id(n_context)>>,
               execution_date |-> execution_date(n_context),
               status |-> "SUCCESS"]
         ELSE [subject |-> <<"Failure", dag_id(n_context), task_id(n_context)>>,
               execution_date |-> execution_date(n_context),
               status |-> "FAILURE",
               exception |-> exception(n_context),
               log_url |-> log_url(n_context)]
    /\ n_pc' = "send"
    /\ UNCHANGED <<n_callback, n_context, n_sent, n_log>>
    /\ UNCHANGED <<vvars, pvars, lvars, cvars, tvars, kvars, rvars, qvars>>

\* A callback that lets the error of send_email out.
NotifySend_Reraises ==
    /\ n_pc = "send"
    /\ \E ok \in BOOLEAN :
         IF ok
         THEN /\ n_sent' = Append(n_sent, n_mail)
              /\ n_log' = Append(n_log, "info")
              /\ n_pc' = "returned"
         ELSE /\ n_log' = Append(n_log, "error")
              /\ n_pc' = "raised"
              /\ UNCHANGED n_sent
    /\ UNCHANGED <<n_callback, n_context, n_mail>>
    /\ UNCHANGED <<vvars, pvars, lvars, cvars, tvars, kvars, rvars, qvars>>

\* lines 51-61 and 104-114: send_email inside try / except Exception
NotifySend ==
    /\ n_pc = "send"
    /\ \E ok \in BOOLEAN :
         IF ok
         THEN /\ n_sent' = Append(n_sent, n_mail)
              /\ n_log' = Append(n_log, "info")
         ELSE /\ n_log' = Append(n_log, "error")
              /\ UNCHANGED n_sent
    /\ n_pc' = "returned"
    /\ UNCHANGED <<n_callback, n_context, n_mail>>
    /\ UNCHANGED <<vvars, pvars, lvars, cvars, tvars, kvars, rvars, qvars>>

\* the variables of a specification that another one leaves alone
KIdle ==
    /\ k_pc = "idle"
    /\ k_source = <<>>
    /\ k_next = 0
    /\ valid_chunks = <<>>
    /\ invalid_chunks = <<>>
    /\ transformed_chunks = <<>>
    /\ k_bucket = <<>>
    /\ k_loaded = <<>>
    /\ k_log = <<>>
    /\ k_error = "none"

RIdle ==
    /\ r_pc = "idle"
    /\ r_phone = <<>>
    /\ r_result = <<>>

QIdle ==
    /\ q_pc = "idle"
    /\ q_keys = <<>>
    /\ q_result = <<>>

TIdle ==
    /\ t_pc = "idle"
    /\ t_heap = <<>>
    /\ t_df = 0
    /\ t_local = 0
    /\ t_before = <<>>
    /\ t_result = 0

NoMail == [subject |-> <<>>]

NIdle ==
    /\ n_pc = "idle"
    /\ n_callback = "none"
    /\ n_context = <<>>
    /\ n_mail = NoMail
    /\ n_sent = <<>>
    /\ n_log = <<>>

CIdle ==
    /\ c_db = EmptyDB
    /\ c_pc = <<>>
    /\ c_data = <<>>
    /\ c_df = <<>>

VIdle ==
    /\ v_pc = "idle"
    /\ v_df = <<>>
    /\ v_i = 1
    /\ valid_records = <<>>
    /\ invalid_records = <<>>
    /\ v_unexpected = {}

PIdle ==
    /\ pc = "idle"
    /\ missing = "none"
    /\ error = "none"
    /\ run = 0
    /\ file_key = <<>>
    /\ bucket = <<>>
    /\ raw_data = NoData
    /\ validation_result = NoData
    /\ valid_df = NoData
    /\ invalid_df = NoData
    /\ transformed_df = NoData
    /\ calls = <<>>
    /\ loaded = <<>>

LIdle ==
    /\ l_pc = "idle"
    /\ db = EmptyDB
    /\ conn = "none"
    /\ l_data = <<>>
    /\ chunk_num = 0
    /\ l_df = <<>>
    /\ attempts = 0
    /\ successes = 0
    /\ db0 = EmptyDB
    /\ first_ok = NoDB
    /\ failed_dbs = {}
    /\ l_error = "none"

----------------------------------------------------------------------------
(* SpecValidate: _validate_single_dataframe on every table of the bounds *)

VInit ==
    /\ v_pc = "loop"
    /\ v_df \in SeqsUpTo(ValidateRows, MaxValidateRows)
    /\ v_i = 1
    /\ valid_records = <<>>
    /\ invalid_records = <<>>
    /\ v_unexpected = {}
    /\ PIdle
    /\ LIdle
    /\ CIdle
    /\ NIdle
    /\ TIdle
    /\ KIdle
    /\ RIdle
    /\ QIdle

\* for idx, row in df.iterrows(): one row
ValidateRow ==
    /\ v_pc = "loop"
    /\ v_i <= Len(v_df)
    /\ LET r == ValidateRowStep(v_df[v_i], v_i - 1, valid_records, invalid_records)
       IN  /\ valid_records' = r.valid
           /\ invalid_records' = r.invalid
    /\ v_i' = v_i + 1
    /\ UNCHANGED <<v_pc, v_df, v_unexpected>>
    /\ UNCHANGED <<pvars, lvars, cvars, nvars, tvars, kvars, rvars, qvars>>

\* the loop is exhausted: build the two DataFrames and return
ValidateReturn ==
    /\ v_pc = "loop"
    /\ v_i > Len(v_df)
    /\ v_pc' = "returned"
    /\ UNCHANGED <<v_df, v_i, valid_records, invalid_records, v_unexpected>>
    /\ UNCHANGED <<pvars, lvars, cvars, nvars, tvars, kvars, rvars, qvars>>

VNext == ValidateRow \/ ValidateReturn

SpecValidate == VInit /\ [][VNext]_vars

----------------------------------------------------------------------------
(* SpecValidateRaise: _validate_single_dataframe when the schema call of   *)
(* a row may raise an exception that is not a ValidationError              *)

\* A loop body without the except Exception clause: the error leaves the
\* function.
ValidateRowUnexpected_Propagates ==
    /\ v_pc = "loop"
    /\ v_i <= Len(v_df)
    /\ v_pc' = "raised"
    /\ v_unexpected' = v_unexpected \cup {v_i - 1}
    /\ UNCHANGED <<v_df, v_i, valid_records, invalid_records>>
    /\ UNCHANGED <<pvars, lvars, cvars, nvars, tvars, kvars, rvars, qvars>>

\* validator.py:88-94: schema(**record_dict) raises some other Exception;
\* the row joins invalid_records with an "Unexpected error" text
ValidateRowUnexpected ==
    /\ v_pc = "loop"
    /\ v_i <= Len(v_df)
    /\ invalid_records' =
          Append(invalid_records,
                 InvalidRecord(v_df[v_i], <<"Unexpected error">>, v_i - 1))
    /\ v_unexpected' = v_unexpected \cup {v_i - 1}
    /\ v_i' = v_i + 1
    /\ UNCHANGED <<v_pc, v_df, valid_records>>
    /\ UNCHANGED <<pvars, lvars, cvars, nvars, tvars, kvars, rvars, qvars>>

\* rows of ValidateRows with one pair of dates
RaiseRows == {r \in ValidateRows : r.order_date = 15 /\ r.delivery_date = 20}

VRInit ==
    /\ v_pc = "loop"
    /\ v_df \in SeqsUpTo(RaiseRows, MaxValidateRows)
    /\ v_i = 1
    /\ valid_records = <<>>
    /\ invalid_records = <<>>
    /\ v_unexpected = {}
    /\ PIdle
    /\ LIdle
    /\ CIdle
    /\ NIdle
    /\ TIdle
    /\ KIdle
    /\ RIdle
    /\ QIdle

VRNext == ValidateRow \/ ValidateRowUnexpected \/ ValidateReturn

SpecValidateRaise == VRInit /\ [][VRNext]_vars

----------------------------------------------------------------------------
(* SpecPipe: run_pipeline(file_key) on every object of the bounds *)

JaneRow ==
    [SampleRow EXCEPT !.order_id = "XYZ9876543",
                      !.customer_name = "Jane Smith",
                      !.customer_email = "jane@example.com",
                      !.quantity = 2]

\* the all-invalid scenario's row: quantity 0 and discount 200
BadRow == [SampleRow EXCEPT !.quantity = 0, !.discount_percentage = 200]

PipeRows == {SampleRow, JaneRow, BadRow}

\* a key under raw/ and one that is not
FileKeys == {<<"raw", "batch_1.csv">>, <<"incoming", "batch_1.csv">>}

\* a small object, one of exactly the threshold and one above it
ObjectSizes == {1024, CHUNK_SIZE_THRESHOLD, CHUNK_SIZE_THRESHOLD + 1}

PInit ==
    /\ pc = "get_vault_client"
    /\ missing \in Credentials \cup {"none"}
    /\ error = "none"
    /\ run = 1
    /\ file_key \in FileKeys
    /\ \E size \in ObjectSizes, rows \in SeqsUpTo(PipeRows, MaxPipeRows) :
         /\ size > CHUNK_SIZE_THRESHOLD => rows # <<>>
         /\ bucket = (file_key :> [size |-> size, rows |-> rows])
    /\ raw_data = NoData
    /\ validation_result = NoData
    /\ valid_df = NoData
    /\ invalid_df = NoData
    /\ transformed_df = NoData
    /\ calls = <<>>
    /\ loaded = <<>>
    /\ VIdle
    /\ LIdle
    /\ CIdle
    /\ NIdle
    /\ TIdle
    /\ KIdle
    /\ RIdle
    /\ QIdle

PNext ==
    \/ GetVaultClient \/ GetMinioClient \/ GetObjectSize \/ GetRawData
    \/ ValidateData \/ Dispatch \/ Quarantine \/ CheckValid \/ Transform
    \/ UpsertData \/ MoveCopy \/ MoveRemove \/ Retrigger

SpecPipe == PInit /\ [][PNext]_vars

----------------------------------------------------------------------------
(* SpecLoad: upsert_data on every batch of the bounds, whole or chunked,   *)
(* over an empty or a populated database, called again after it returns or *)
(* raises                                                                  *)

\* Transformed rows: two orders, each with its order date and quantity, and
\* three customer/product variants: the first two share the customer email
\* and the product key and differ in the customer name and the rating, the
\* third is another customer buying another product.
LoadVariants ==
    { <<"john@example.com", "John Doe", "Premium Laptop", 45>>,
      <<"john@example.com", "Johnny Doe", "Premium Laptop", 50>>,
      <<"jane@example.com", "Jane Smith", "Running Shoes", 45>> }

\* order id, order date, quantity, delivery date (one order has none)
LoadOrders == { <<"ABC1234567", 15, 1, 25>>, <<"XYZ9876543", 20, 2, NaT>> }

\* The rows of a batch: the first customer places either order, under the
\* second spelling of the name only the first; the second customer places
\* the second order.
LoadRows ==
    { TransformRow([SampleRow EXCEPT !.order_id = oc[1][1],
                                     !.order_date = oc[1][2],
                                     !.quantity = oc[1][3],
                                     !.delivery_date = oc[1][4],
                                     !.customer_email = oc[2][1],
                                     !.customer_name = oc[2][2],
                                     !.product_title = oc[2][3],
                                     !.product_rating = oc[2][4]]) :
        oc \in { p \in LoadOrders \X LoadVariants :
                    \/ p[2][2] = "John Doe"
                    \/ p[2][2] = "Johnny Doe" /\ p[1][1] = "ABC1234567"
                    \/ p[2][2] = "Jane Smith" /\ p[1][1] = "XYZ9876543" } }

\* every way to cut a table into consecutive non-empty chunks
RECURSIVE Splits(_)
Splits(t) ==
    IF t = <<>> THEN {<<>>}
    ELSE UNION { { <<SubSeq(t, 1, k)>> \o rest : rest \in Splits(SubSeq(t, k + 1, Len(t))) } :
                 k \in 1..Len(t) }

\* a database some earlier batch left behind
SeedRow ==
    TransformRow([SampleRow EXCEPT !.order_id = "XYZ9876543",
                                   !.customer_name = "J. Doe",
                                   !.product_rating = 30,
                                   !.order_date = 20,
                                   !.quantity = 3])

InitialDBs == {EmptyDB, UpsertSingle(EmptyDB, <<SeedRow>>)}

LInit ==
    /\ l_pc = "connect"
    /\ db \in InitialDBs
    /\ db0 = db
    /\ conn = "none"
    /\ \E t \in SeqsUpTo(LoadRows, MaxLoadRows) :
         /\ t # <<>>
         /\ l_data \in Splits(t)
    /\ chunk_num = 0
    /\ l_df = <<>>
    /\ attempts = 1
    /\ successes = 0
    /\ first_ok = NoDB
    /\ failed_dbs = {}
    /\ l_error = "none"
    /\ VIdle
    /\ PIdle
    /\ CIdle
    /\ NIdle
    /\ TIdle
    /\ KIdle
    /\ RIdle
    /\ QIdle

LNext ==
    \/ OpenConnection \/ UpsertCustomer \/ UpsertProduct \/ UpsertDate
    \/ UpsertFact \/ Reload

SpecLoad == LInit /\ [][LNext]_vars

----------------------------------------------------------------------------
(* SpecConcurrent: two loads at once on one database.  Each run has its    *)
(* own connection; each step of a run is one transaction, which commits    *)
(* as a whole or, on an error (a deadlock with the other run included), is *)
(* rolled back as a whole.                                                 *)

Runs == {1, 2}

\* the run raises: rollback of the step, the earlier steps stay committed
ConcurrentRaise(r) ==
    /\ c_pc' = [c_pc EXCEPT ![r] = "failed"]
    /\ UNCHANGED <<c_db, c_data, c_df>>

ConcurrentCustomer ==
    /\ \E r \in Runs :
         /\ c_pc[r] = "customer"
         /\ \E ok \in BOOLEAN :
              IF ok
              THEN LET res == upsert_dimension_customer(c_db.dim_customer, c_df[r])
                   IN  /\ c_db' = [c_db EXCEPT !.dim_customer = res.tbl]
                       /\ c_df' = [c_df EXCEPT ![r] = res.df]
                       /\ c_pc' = [c_pc EXCEPT ![r] = "product"]
                       /\ UNCHANGED c_data
              ELSE ConcurrentRaise(r)
    /\ UNCHANGED <<vvars, pvars, lvars, nvars, tvars, kvars, rvars, qvars>>

ConcurrentProduct ==
    /\ \E r \in Runs :
         /\ c_pc[r] = "product"
         /\ \E ok \in BOOLEAN :
              IF ok
              THEN LET res == upsert_dimension_product(c_db.dim_product, c_df[r])
                   IN  /\ c_db' = [c_db EXCEPT !.dim_product = res.tbl]
                       /\ c_df' = [c_df EXCEPT ![r] = res.df]
                       /\ c_pc' = [c_pc EXCEPT ![r] = "date"]
                       /\ UNCHANGED c_data
              ELSE ConcurrentRaise(r)
    /\ UNCHANGED <<vvars, pvars, lvars, nvars, tvars, kvars, rvars, qvars>>

ConcurrentDate ==
    /\ \E r \in Runs :
         /\ c_pc[r] = "date"
         /\ \E ok \in BOOLEAN :
              IF ok
              THEN LET res == upsert_dimension_date(c_db.dim_date, c_df[r])
                   IN  /\ c_db' = [c_db EXCEPT !.dim_date = res.tbl]
                       /\ c_df' = [c_df EXCEPT ![r] = res.df]
                       /\ c_pc' = [c_pc EXCEPT ![r] = "fact"]
                       /\ UNCHANGED c_data
              ELSE ConcurrentRaise(r)
    /\ UNCHANGED <<vvars, pvars, lvars, nvars, tvars, kvars, rvars, qvars>>

ConcurrentFact ==
    /\ \E r \in Runs :
         /\ c_pc[r] = "fact"
         /\ \E ok \in BOOLEAN :
              IF ok
              THEN /\ c_db' = [c_db EXCEPT
                                 !.fact_sales = upsert_fact_sales(c_db.fact_sales, c_df[r])]
                   /\ c_pc' = [c_pc EXCEPT ![r] = "done"]
                   /\ UNCHANGED <<c_data, c_df>>
              ELSE ConcurrentRaise(r)
    /\ UNCHANGED <<vvars, pvars, lvars, nvars, tvars, kvars, rvars, qvars>>

\* the rows the two runs draw their tables from: one order seen with two
\* names and ratings of the same customer and product and two order dates,
\* and an order of another customer
ConcurrentRows ==
    { TransformRow([SampleRow EXCEPT !.order_id = x[1], !.order_date = x[2],
                                     !.quantity = x[3],
                                     !.customer_email = x[4], !.customer_name = x[5],
                                     !.product_title = x[6], !.product_rating = x[7]]) :
        x \in { <<"ABC1234567", 15, 1, "john@example.com", "John Doe", "Premium Laptop", 45>>,
                <<"ABC1234567", 20, 2, "john@example.com", "Johnny Doe", "Premium Laptop", 50>>,
                <<"XYZ9876543", 15, 1, "jane@example.com", "Jane Smith", "Running Shoes", 45>> } }

CInit ==
    /\ c_db \in InitialDBs
    /\ c_data \in [Runs -> SeqsUpTo(ConcurrentRows, MaxLoadRows) \ {<<>>}]
    /\ c_df = [r \in Runs |-> WithIdColumns(c_data[r])]
    /\ c_pc = [r \in Runs |-> "customer"]
    /\ VIdle
    /\ PIdle
    /\ LIdle
    /\ NIdle
    /\ TIdle
    /\ KIdle
    /\ RIdle
    /\ QIdle

CNext == ConcurrentCustomer \/ ConcurrentProduct \/ ConcurrentDate \/ ConcurrentFact

SpecConcurrent == CInit /\ [][CNext]_vars

----------------------------------------------------------------------------
(* SpecNotify: each callback on every context in which each of dag,        *)
(* task_instance, execution_date and exception is present or absent        *)

ContextItems ==
    { <<"dag", [dag_id |-> "process_sales_data"]>>,
      <<"task_instance", [task_id |-> "run_etl_pipeline", log_url |-> "http://airflow/log"]>>,
      <<"execution_date", 15>>,
      <<"exception", "ValueError">>,
      <<"exception", "S3Error">> }

\* the dictionary with the given items
RECURSIVE Dict(_)
Dict(items) ==
    IF items = {} THEN <<>>
    ELSE LET x == CHOOSE y \in items : TRUE
         IN  (x[1] :> x[2]) @@ Dict(items \ {x})

Contexts ==
    { Dict(items) : items \in { S \in SUBSET ContextItems :
                                  \A a, b \in S : a[1] = b[1] => a = b } }

NInit ==
    /\ n_pc = "format"
    /\ n_callback \in {"send_success_notification", "send_failure_notification"}
    /\ n_context \in Contexts
    /\ n_mail = NoMail
    /\ n_sent = <<>>
    /\ n_log = <<>>
    /\ VIdle
    /\ PIdle
    /\ LIdle
    /\ CIdle
    /\ TIdle
    /\ KIdle
    /\ RIdle
    /\ QIdle

NNext == NotifyFormat \/ NotifySend

SpecNotify == NInit /\ [][NNext]_vars

----------------------------------------------------------------------------
(* _transform_single_dataframe, statement by statement:                    *)
(* dags/src/transformation/transformer.py                                  *)
(* A DataFrame is an object on a heap, named by a reference; assigning a   *)
(* column changes the object every holder of the reference sees, while     *)
(* copy() and drop(columns=...) return a new object.                       *)

MaxTransformRows == 2

PIIColumns == {"customer_email", "customer_phone", "customer_address"}
AddedColumns == {"customer_email_hash", "customer_phone_redacted",
                 "customer_address_redacted", "profit"}
AllColumns == DOMAIN SampleRow

Table(columns, rows) == [columns |-> columns, rows |-> rows]

\* df[col] = values: the object at ref changes in place
SetColumn(h, ref, col, values) ==
    LET t == h[ref]
    IN  [h EXCEPT ![ref] =
           Table(t.columns \cup {col},
                 [i \in 1..Len(t.rows) |-> (col :> values[i]) @@ t.rows[i]])]

\* df[col]: the values of a column, row by row
Column(t, col) == [i \in 1..Len(t.rows) |-> t.rows[i][col]]

\* df.drop(columns=[col]): a new table without the column
Drop(t, col) ==
    Table(t.columns \ {col},
          [i \in 1..Len(t.rows) |->
              [c \in (DOMAIN t.rows[i]) \ {col} |-> t.rows[i][c]]])

\* pd.to_datetime(..., errors="coerce") of a day: the same day, NaT stays NaT
to_datetime(d) == d

\* An assignment in place of the copy: transformed_df = df
TCopy_Aliases ==
    /\ t_pc = "copy"
    /\ t_local' = t_df
    /\ t_pc' = "anonymize_email"
    /\ UNCHANGED <<t_heap, t_df, t_before, t_result>>
    /\ UNCHANGED <<vvars, pvars, lvars, cvars, nvars, kvars, rvars, qvars>>

\* line 58: transformed_df = df.copy()
TCopy ==
    /\ t_pc = "copy"
    /\ t_heap' = Append(t_heap, t_heap[t_df])
    /\ t_local' = Len(t_heap) + 1
    /\ t_pc' = "anonymize_email"
    /\ UNCHANGED <<t_df, t_before, t_result>>
    /\ UNCHANGED <<vvars, pvars, lvars, cvars, nvars, kvars, rvars, qvars>>

\* one of the three blocks of _anonymize_pii: when the column is there, the
\* new column is assigned in place and the raw one dropped into a new table
Anonymize(at, col, new, values, next) ==
    /\ t_pc = at
    /\ IF col \in t_heap[t_local].columns
       THEN LET h == SetColumn(t_heap, t_local, new, values)
            IN  /\ t_heap' = Append(h, Drop(h[t_local], col))
                /\ t_local' = Len(t_heap) + 1
       ELSE UNCHANGED <<t_heap, t_local>>
    /\ t_pc' = next
    /\ UNCHANGED <<t_df, t_before, t_result>>
    /\ UNCHANGED <<vvars, pvars, lvars, cvars, nvars, kvars, rvars, qvars>>

\* lines 120-122
TAnonymizeEmail ==
    Anonymize("anonymize_email", "customer_email", "customer_email_hash",
              [i \in 1..Len(t_heap[t_local].rows) |->
                  _hash_email(Column(t_heap[t_local], "customer_email")[i])],
              "anonymize_phone")

\* lines 125-127
TAnonymizePhone ==
    Anonymize("anonymize_phone", "customer_phone", "customer_phone_redacted",
              [i \in 1..Len(t_heap[t_local].rows) |->
                  _redact_phone(Column(t_heap[t_local], "customer_phone")[i])],
              "anonymize_address")

\* lines 130-132
TAnonymizeAddress ==
    Anonymize("anonymize_address", "customer_address", "customer_address_redacted",
              [i \in 1..Len(t_heap[t_local].rows) |->
                  _redact_address(Column(t_heap[t_local], "customer_address")[i])],
              "calculate_profit")

\* _calculate_profit, lines 194-197
TCalculateProfit ==
    /\ t_pc = "calculate_profit"
    /\ IF {"discounted_price", "original_price"} \subseteq t_heap[t_local].columns
       THEN t_heap' = SetColumn(t_heap, t_local, "profit",
                                [i \in 1..Len(t_heap[t_local].rows) |->
                                    _calculate_profit(
                                        t_heap[t_local].rows[i].discounted_price,
                                        t_heap[t_local].rows[i].original_price)])
       ELSE UNCHANGED t_heap
    /\ t_pc' = "convert_dates"
    /\ UNCHANGED <<t_df, t_local, t_before, t_result>>
    /\ UNCHANGED <<vvars, pvars, lvars, cvars, nvars, kvars, rvars, qvars>>

\* lines 215-216: if col in df.columns ...: df[col] = pd.to_datetime(df[col])
ConvertColumn(h, ref, col) ==
    IF col \in h[ref].columns
    THEN SetColumn(h, ref, col,
                   [i \in 1..Len(h[ref].rows) |-> to_datetime(Column(h[ref], col)[i])])
    ELSE h

\* lines 236-237: if col in df.columns: df[col] = df[col].round(2)
RoundColumn(h, ref, col) ==
    IF col \in h[ref].columns
    THEN SetColumn(h, ref, col,
                   [i \in 1..Len(h[ref].rows) |-> Round2(Column(h[ref], col)[i])])
    ELSE h

\* _convert_dates, lines 212-216
TConvertDates ==
    /\ t_pc = "convert_dates"
    /\ t_heap' = ConvertColumn(
                     ConvertColumn(
                         ConvertColumn(t_heap, t_local, "order_date"),
                         t_local, "delivery_date"),
                     t_local, "data_collected_at")
    /\ t_pc' = "round_monetary_values"
    /\ UNCHANGED <<t_df, t_local, t_before, t_result>>
    /\ UNCHANGED <<vvars, pvars, lvars, cvars, nvars, kvars, rvars, qvars>>

\* _round_monetary_values, lines 233-237
TRoundMonetaryValues ==
    /\ t_pc = "round_monetary_values"
    /\ t_heap' = RoundColumn(
                     RoundColumn(
                         RoundColumn(t_heap, t_local, "discounted_price"),
                         t_local, "original_price"),
                     t_local, "profit")
    /\ t_pc' = "return"
    /\ UNCHANGED <<t_df, t_local, t_before, t_result>>
    /\ UNCHANGED <<vvars, pvars, lvars, cvars, nvars, kvars, rvars, qvars>>

\* line 74: return transformed_df
TReturn ==
    /\ t_pc = "return"
    /\ t_result' = t_local
    /\ t_pc' = "returned"
    /\ UNCHANGED <<t_heap, t_df, t_local, t_before>>
    /\ UNCHANGED <<vvars, pvars, lvars, cvars, nvars, kvars, rvars, qvars>>

\* the tables a caller passes: those of the pipeline, and tables that came
\* without one of the PII columns
TransformColumns == {AllColumns, AllColumns \ {"customer_phone"}}

TransformInputs ==
    { Table(columns, [i \in 1..n |-> [c \in columns |-> rows[i][c]]]) :
        <<columns, n, rows>> \in
            { x \in TransformColumns \X (0..MaxTransformRows)
                      \X [1..MaxTransformRows -> PipeRows] :
                \A i \in (x[2] + 1)..MaxTransformRows : x[3][i] = SampleRow } }

TInit ==
    /\ t_pc = "copy"
    /\ t_before \in TransformInputs
    /\ t_heap = <<t_before>>
    /\ t_df = 1
    /\ t_local = 0
    /\ t_result = 0
    /\ VIdle
    /\ PIdle
    /\ LIdle
    /\ CIdle
    /\ NIdle
    /\ KIdle
    /\ RIdle
    /\ QIdle

TNext ==
    \/ TCopy
    \/ TAnonymizeEmail
    \/ TAnonymizePhone
    \/ TAnonymizeAddress
    \/ TCalculateProfit
    \/ TConvertDates
    \/ TRoundMonetaryValues
    \/ TReturn

SpecTransform == TInit /\ [][TNext]_vars

----------------------------------------------------------------------------
(* Properties of the validator *)

\* index labels of the rows rejected so far
RejectedIndexes ==
    {invalid_records[j].row_index : j \in 1..Len(invalid_records)}

\* the rows of df[1..n], in order, whose index label is not in S
RECURSIVE RowsNotAt(_, _, _)
RowsNotAt(df, n, S) ==
    IF n = 0 THEN <<>>
    ELSE IF (n - 1) \in S THEN RowsNotAt(df, n - 1, S)
         ELSE Append(RowsNotAt(df, n - 1, S), df[n])

\* C9: validate_data places every input row in exactly one of the two
\* outputs: accepted + rejected = rows read, the rejected rows sit at
\* distinct input positions and carry their row, an error text and their
\* index, the accepted rows are exactly the remaining input rows in input
\* order, and no accepted record is also a rejected row.
C9_ValidationPartition ==
    LET n == v_i - 1
    IN  /\ Len(valid_records) + Len(invalid_records) = n
        /\ Cardinality(RejectedIndexes) = Len(invalid_records)
        /\ \A j \in 1..Len(invalid_records) :
              /\ invalid_records[j].row_index \in 0..(n - 1)
              /\ invalid_records[j].row = v_df[invalid_records[j].row_index + 1]
              /\ invalid_records[j].validation_error # <<>>
        /\ valid_records = RowsNotAt(v_df, n, RejectedIndexes)
        /\ \A i \in 1..Len(valid_records), j \in 1..Len(invalid_records) :
              valid_records[i] # invalid_records[j].row

C9_Witness ==
    /\ v_pc = "returned"
    /\ Len(v_df) = MaxValidateRows
    /\ Len(valid_records) >= 1
    /\ Len(invalid_records) >= 1

\* C10: every row read whose delivery_date is strictly before its
\* order_date has been rejected.
C10_DeliveryBeforeOrderRejected ==
    \A p \in 1..(v_i - 1) :
        (v_df[p].delivery_date # NaT /\ v_df[p].delivery_date < v_df[p].order_date)
            => (p - 1) \in RejectedIndexes

\* C11: the validator never leaves its loop by an exception, and a row is
\* rejected exactly when its own fields fail the schema or its own schema
\* call raised; the accepted records are the remaining rows, each as it was
\* read, whatever the other rows of the table are and in whatever order.
C11_RowsValidatedIndependently ==
    /\ v_pc \in {"idle", "loop", "returned"}
    /\ \A p \in 1..(v_i - 1) :
          ((p - 1) \in RejectedIndexes) <=>
              (SalesRecord(v_df[p]).errors # <<>> \/ (p - 1) \in v_unexpected)
    /\ valid_records =
          RowsNotAt(v_df, v_i - 1,
                    {p - 1 : p \in {q \in 1..(v_i - 1) :
                                      \/ SalesRecord(v_df[q]).errors # <<>>
                                      \/ (q - 1) \in v_unexpected}})

\* the validator returned; the first row, whose fields pass the schema, was
\* rejected because its schema call raised, and a later row was accepted
C11_Witness ==
    /\ v_pc = "returned"
    /\ Len(v_df) = MaxValidateRows
    /\ 0 \in v_unexpected
    /\ SalesRecord(v_df[1]).errors = <<>>
    /\ Len(valid_records) >= 1

----------------------------------------------------------------------------
(* Properties of run_pipeline *)

AllRecordsFailed == "ValueError: All records failed validation"

ArchiveSteps == {"move_processed_file", "copy_object", "remove_object"}

\* step finished without raising in the current run
Finished(step) == \E i \in 1..Len(calls) : calls[i].step = step /\ calls[i].ok

\* position in the current run's log of the first entry of a step in S
\* (one past the end when there is none)
FirstOf(S) ==
    IF \E i \in 1..Len(calls) : calls[i].step \in S
    THEN CHOOSE i \in 1..Len(calls) :
            /\ calls[i].step \in S
            /\ \A j \in 1..(i - 1) : calls[j].step \notin S
    ELSE Len(calls) + 1

ArchiveAttempted == FirstOf(ArchiveSteps) <= Len(calls)

\* C1: the archive step is entered only after fetch, validation, the
\* quarantine write (when rows were rejected), transform and the load have
\* finished without raising, in that order; once an earlier step has raised
\* the run has failed with that error and the archive step is not entered.
C1_ArchiveOnlyAfterAllSteps ==
    /\ ArchiveAttempted =>
         LET m == FirstOf(ArchiveSteps)
         IN  /\ \A i \in 1..(m - 1) : calls[i].ok
             /\ FirstOf({"get_raw_data"}) < FirstOf({"validate_data"})
             /\ FirstOf({"validate_data"}) < FirstOf({"transform_sales_data"})
             /\ FirstOf({"transform_sales_data"}) < FirstOf({"upsert_data"})
             /\ FirstOf({"upsert_data"}) < m
             /\ invalid_df.rows # <<>> =>
                  /\ FirstOf({"validate_data"}) <
                        FirstOf({"save_invalid_data_to_quarantine"})
                  /\ FirstOf({"save_invalid_data_to_quarantine"}) <
                        FirstOf({"transform_sales_data"})
             /\ loaded # <<>> /\ loaded[Len(loaded)] = transformed_df.rows
    /\ (\E i \in 1..Len(calls) : ~ calls[i].ok /\ calls[i].step \notin ArchiveSteps) =>
         /\ ~ ArchiveAttempted
         /\ pc = "failed"
         /\ error # "none"

C1_Witness ==
    /\ pc = "done"
    /\ invalid_df.rows # <<>>
    /\ Finished("save_invalid_data_to_quarantine")
    /\ Finished("remove_object")

\* C2: when a run has ended by raising, the source object is still under
\* raw/ and no object for the batch is under processed/.
C2_FailedRunLeavesNothingProcessed ==
    pc = "failed" =>
        /\ file_key \in DOMAIN bucket
        /\ DestinationKey(file_key) \notin DOMAIN bucket

\* a whole-file run whose validation accepted no row and rejected some
AllInvalidWholeFile ==
    /\ raw_data.type = "DataFrame"
    /\ validation_result.type = "tuple"
    /\ validation_result.valid = <<>>
    /\ validation_result.invalid # <<>>

\* C3: in a whole-file run whose validation accepts no row and rejects at
\* least one, transform, load and archive are never entered; the run ends by
\* raising; it raises the all-records-failed error exactly when the
\* quarantine upload completed (the rejected rows are then under quarantine/),
\* and the upload's own S3Error otherwise.
C3_AllInvalidWholeFile ==
    AllInvalidWholeFile =>
        /\ pc \notin {"transform_sales_data", "upsert_data", "move_processed_file",
                      "remove_object", "done"}
        /\ \A i \in 1..Len(calls) :
              calls[i].step \notin
                 {"transform_sales_data", "upsert_data"} \cup ArchiveSteps
        /\ loaded = <<>>
        /\ DestinationKey(file_key) \notin DOMAIN bucket
        /\ pc = "check_valid" => Finished("save_invalid_data_to_quarantine")
        /\ pc = "failed" =>
              \/ /\ error = AllRecordsFailed
                 /\ Finished("save_invalid_data_to_quarantine")
                 /\ QuarantineKey(file_key) \in DOMAIN bucket
                 /\ bucket[QuarantineKey(file_key)].rows = validation_result.invalid
              \/ /\ error = "S3Error"
                 /\ calls[Len(calls)] =
                      [step |-> "save_invalid_data_to_quarantine", ok |-> FALSE]

C3_Witness ==
    /\ AllInvalidWholeFile
    /\ pc = "failed"
    /\ error = AllRecordsFailed
    /\ Len(bucket[QuarantineKey(file_key)].rows) = 1

\* the rows of a chunked read none of which the schema accepts
ChunkedAllInvalid ==
    /\ raw_data.type = "TextFileReader"
    /\ \A i \in 1..Len(raw_data.rows) : SalesRecord(raw_data.rows[i]).errors # <<>>

\* C4: a chunked run in which no chunk holds a valid row ends with the
\* all-records-failed error, after the rejected rows were quarantined.
C4_ChunkedAllInvalidFails ==
    (ChunkedAllInvalid /\ Finished("validate_data") /\ pc \in {"failed", "done"}) =>
        /\ pc = "failed"
        /\ error = AllRecordsFailed
        /\ Finished("save_invalid_data_to_quarantine")
        /\ loaded = <<>>
        /\ DestinationKey(file_key) \notin DOMAIN bucket

\* C5: whenever the run fails with the all-records-failed error, a
\* quarantine write completed earlier in the run, whatever the batch, the
\* batch of zero rows included.
C5_AllFailedImpliesQuarantined ==
    (pc = "failed" /\ error = AllRecordsFailed) =>
        Finished("save_invalid_data_to_quarantine")

\* What the code does keep: when the run fails with the all-records-failed
\* error and validation rejected at least one row, the rejected rows were
\* uploaded under quarantine/ earlier in the run; a batch of zero rows fails
\* with the same error and no quarantine write.
C5_AllFailedImpliesQuarantinedUnlessEmpty ==
    (pc = "failed" /\ error = AllRecordsFailed) =>
        /\ valid_df.rows = <<>>
        /\ invalid_df.rows # <<>> =>
              /\ Finished("save_invalid_data_to_quarantine")
              /\ QuarantineKey(file_key) \in DOMAIN bucket
              /\ bucket[QuarantineKey(file_key)].rows = invalid_df.rows
        /\ invalid_df.rows = <<>> =>
              /\ raw_data.rows = <<>>
              /\ \A i \in 1..Len(calls) :
                    calls[i].step # "save_invalid_data_to_quarantine"

----------------------------------------------------------------------------
(* Properties of upsert_data *)

\* the rows of the chunks as one table
RECURSIVE Concat(_)
Concat(chunks) ==
    IF chunks = <<>> THEN <<>> ELSE Head(chunks) \o Concat(Tail(chunks))

\* C6: when upsert_data has returned for a batch and is called with the same
\* batch again, then on its return the four tables hold the rows, surrogate
\* keys and values they held at the first return, whatever the database
\* held before the first call.
C6_SecondLoadChangesNothing ==
    (l_pc = "done" /\ successes >= 2) => db = first_ok

\* a second call has returned on a database that the first call changed
C6_Witness ==
    /\ l_pc = "done"
    /\ successes = 2
    /\ db0 # EmptyDB
    /\ first_ok # db0

\* C7: when a call of upsert_data raised, at the connection or after any
\* number of its steps had committed, and a later call with the same batch
\* returns, the four tables equal those of one call that returns on the
\* database as it was before the first call.
C7_RetryEqualsCleanRun ==
    (l_pc = "done" /\ failed_dbs # {}) => db = UpsertChunks(db0, l_data)

\* a call raised after part of the batch was committed, and the retry returned
C7_Witness ==
    /\ l_pc = "done"
    /\ successes = 1
    /\ \E f \in failed_dbs : f # db0 /\ f # db

\* C8: however the batch is cut into consecutive chunks, a call that
\* returns leaves the tables that loading the batch as one table leaves.
C8_ChunkingDoesNotMatter ==
    (l_pc = "done" /\ failed_dbs = {} /\ successes = 1)
        => db = UpsertSingle(db0, Concat(l_data))

\* C12: a connection upsert_data opened is open only while its steps run;
\* once the call has returned or raised, in whichever step of whichever
\* chunk and with whichever kind of error, the connection is closed, and a
\* call that failed to connect leaves none behind.
C12_ConnectionClosedAtExit ==
    /\ l_pc \in {"done", "failed"} => conn # "open"
    /\ l_pc = "done" => conn = "closed"
    /\ conn = "open" => l_pc \in {"customer", "product", "date", "fact"}
    /\ l_pc \in {"customer", "product", "date", "fact"} => conn = "open"

\* a call raised an exception that is not a database error in a step of its
\* second chunk, and its connection is closed
C12_Witness ==
    /\ l_pc = "failed"
    /\ l_error = "Exception"
    /\ chunk_num = 2
    /\ conn = "closed"

----------------------------------------------------------------------------
(* Properties of concurrent loads *)

\* every row of the table has its own value of Key
UniqueBy(tbl, Key(_)) == \A a, b \in tbl : Key(a) = Key(b) => a = b

\* C13: in every state two concurrent loads can reach, dim_customer has one
\* row per email_hash, dim_product one per (product_title,
\* product_category), dim_date one per date, fact_sales one per order_id,
\* and every fact row's customer, product and date ids are ids of rows of
\* the dimension tables.
C13_KeysUniqueAndFactsReferToRows ==
    /\ UniqueBy(c_db.dim_customer, LAMBDA r : r.email_hash)
    /\ UniqueBy(c_db.dim_product, LAMBDA r : <<r.product_title, r.product_category>>)
    /\ UniqueBy(c_db.dim_date, LAMBDA r : r.date)
    /\ UniqueBy(c_db.fact_sales, LAMBDA r : r.order_id)
    /\ \A f \in c_db.fact_sales :
          /\ \E c \in c_db.dim_customer : c.customer_id = f.customer_id
          /\ \E q \in c_db.dim_product : q.product_id = f.product_id
          /\ \E d \in c_db.dim_date : d.date_id = f.order_date_id
          /\ \E d \in c_db.dim_date : d.date_id = f.delivery_date_id

\* both runs have finished after writing the same order with different
\* names; the customer row holds a name run 1 wrote and the fact row the
\* values run 2 wrote
C13_Witness ==
    /\ c_pc = [r \in Runs |-> "done"]
    /\ \E i \in 1..Len(c_data[1]), j \in 1..Len(c_data[2]) :
          /\ c_data[1][i].order_id = c_data[2][j].order_id
          /\ c_data[1][i].customer_name # c_data[2][j].customer_name
          /\ \E c \in c_db.dim_customer : c.customer_name = c_data[1][i].customer_name
          /\ \E f \in c_db.fact_sales :
                f.order_id = c_data[2][j].order_id /\ f.quantity = c_data[2][j].quantity

----------------------------------------------------------------------------
(* Properties of run_pipeline on a chunked read *)

\* the errors of the services run_pipeline calls
ServiceErrors == {"ConnectionError", "S3Error", "psycopg2.Error"}

\* C14: a run whose object is larger than the chunking threshold and holds a
\* row the schema accepts goes through the chunked path to the end: it
\* fails only when a service it calls fails; when it is done the rejected
\* rows of all chunks are the quarantine object, the accepted rows were
\* transformed and loaded, and the source is archived.
C14_ChunkedRunCompletes ==
    (/\ raw_data.type = "TextFileReader"
     /\ \E i \in 1..Len(raw_data.rows) : SalesRecord(raw_data.rows[i]).errors = <<>>)
        => /\ pc = "failed" => error \in ServiceErrors
           /\ pc = "done" =>
                 /\ loaded # <<>>
                 /\ DestinationKey(file_key) \in DOMAIN bucket

----------------------------------------------------------------------------
(* Properties of run_pipeline when a credential is missing *)

ConfigurationErrors == {"ValueError: Vault token not provided", "KeyError"}

\* C15: when the run fails because a credential is missing, nothing of the
\* batch has been touched: the run made no quarantine write and stored no
\* table.
C15_MissingCredentialTouchesNothing ==
    (pc = "failed" /\ error \in ConfigurationErrors) =>
        /\ \A i \in 1..Len(calls) : calls[i].step # "save_invalid_data_to_quarantine"
        /\ QuarantineKey(file_key) \notin DOMAIN bucket
        /\ loaded = <<>>

----------------------------------------------------------------------------
(* Properties of the notification callbacks *)

\* C16: neither callback ever leaves by an exception: on every context,
\* with any of dag, task_instance, execution_date and exception absent, it
\* builds its mail from the defaults, and it returns whether send_email
\* delivered the mail or raised, having logged the error in the second case.
C16_CallbacksNeverRaise ==
    /\ n_pc \in {"idle", "format", "send", "returned"}
    /\ n_pc \in {"send", "returned"} =>
          /\ "dag" \notin DOMAIN n_context => n_mail.subject[2] = "Unknown DAG"
          /\ "task_instance" \notin DOMAIN n_context => n_mail.subject[3] = "Unknown Task"
          /\ "execution_date" \notin DOMAIN n_context => n_mail.execution_date = "Unknown Date"
    /\ n_pc = "returned" =>
          \/ n_sent = <<n_mail>> /\ n_log = <<"info">>
          \/ n_sent = <<>> /\ n_log = <<"error">>

\* send_failure_notification returned on the empty context after send_email
\* raised
C16_Witness ==
    /\ n_pc = "returned"
    /\ n_callback = "send_failure_notification"
    /\ DOMAIN n_context = {}
    /\ n_log = <<"error">>
    /\ n_mail.exception = "No exception details available"

----------------------------------------------------------------------------
(* Properties of run_pipeline: where the rows of the batch go *)

\* the rows of the batch's quarantine object (none when there is no object)
Quarantined ==
    IF QuarantineKey(file_key) \in DOMAIN bucket
    THEN bucket[QuarantineKey(file_key)].rows ELSE <<>>

\* positions (from 0) of the rows of the batch that the schema refuses
RefusedPositions ==
    {p - 1 : p \in {q \in 1..Len(raw_data.rows) :
                      SalesRecord(raw_data.rows[q]).errors # <<>>}}

\* C17: when run_pipeline has returned normally, every row of the batch is
\* either one of the rows of the quarantine object (the rows the schema
\* refuses, each once, with its position) or one of the rows given to
\* transform and then to the loader (the rows the schema accepts, each
\* once, in order); no row is in both and none is in neither.
C17_NoRowLost ==
    pc = "done" =>
        /\ {Quarantined[j].row_index : j \in 1..Len(Quarantined)} = RefusedPositions
        /\ Len(Quarantined) = Cardinality(RefusedPositions)
        /\ \A j \in 1..Len(Quarantined) :
              Quarantined[j].row = raw_data.rows[Quarantined[j].row_index + 1]
        /\ valid_df.rows =
              RowsNotAt(raw_data.rows, Len(raw_data.rows), RefusedPositions)
        /\ transformed_df.rows = _transform_single_dataframe(valid_df.rows)
        /\ loaded # <<>>
        /\ loaded[Len(loaded)] = transformed_df.rows
        /\ Len(Quarantined) + Len(loaded[Len(loaded)]) = Len(raw_data.rows)

\* a batch with one accepted and one refused row was processed to the end
C17_Witness ==
    /\ pc = "done"
    /\ Len(raw_data.rows) = MaxPipeRows
    /\ Len(Quarantined) >= 1
    /\ Len(loaded[Len(loaded)]) >= 1

\* validation of the batch refused at least one row
RowsRefused == invalid_df.type = "DataFrame" /\ invalid_df.rows # <<>>

\* the steps of a run that come after the quarantine write
LaterSteps == {"transform_sales_data", "upsert_data"} \cup ArchiveSteps

\* the run has ended, normally or with an error raised by a later step
EndedAfterQuarantine ==
    \/ pc = "done"
    \/ /\ pc = "failed"
       /\ calls # <<>>
       /\ calls[Len(calls)].step \in LaterSteps

\* entries of the current run's log that are quarantine writes
QuarantineWrites ==
    {i \in 1..Len(calls) : calls[i].step = "save_invalid_data_to_quarantine"}

----------------------------------------------------------------------------
(* Properties of _transform_single_dataframe *)

\* C19: from the call to the return of _transform_single_dataframe the
\* caller's table has the columns and the cell values it had when the call
\* began (the raw PII columns it came with, no hash, redacted or profit
\* column); the table returned is another object, has none of the raw
\* email, phone and address columns, has one row per input row, and for a
\* table with the full set of columns its rows are the transformed rows.
C19_InputNotMutated ==
    t_pc # "idle" =>
        /\ t_heap[t_df] = t_before
        /\ t_heap[t_df].columns \cap AddedColumns = {}
        /\ \A i \in 1..Len(t_heap[t_df].rows) :
              DOMAIN t_heap[t_df].rows[i] = t_before.columns
        /\ t_pc = "returned" =>
              LET result == t_heap[t_result]
              IN  /\ t_result # t_df
                  /\ result.columns \cap PIIColumns = {}
                  /\ Len(result.rows) = Len(t_before.rows)
                  /\ \A i \in 1..Len(result.rows) :
                        DOMAIN result.rows[i] = result.columns
                  /\ t_before.columns = AllColumns =>
                        result.rows = _transform_single_dataframe(t_before.rows)

\* a full table of the largest size was transformed and returned
C19_Witness ==
    /\ t_pc = "returned"
    /\ Len(t_before.rows) = MaxTransformRows
    /\ PIIColumns \subseteq t_before.columns
    /\ AddedColumns \subseteq t_heap[t_result].columns

----------------------------------------------------------------------------
(* Properties of upsert_data: step order and what the fact rows refer to *)

\* the ids of row refer to committed dimension rows with row's business keys
CustomerCommitted(d, row) ==
    \E c \in d.dim_customer : /\ c.customer_id = row.customer_id
                              /\ c.email_hash = row.customer_email_hash

ProductCommitted(d, row) ==
    \E q \in d.dim_product : /\ q.product_id = row.product_id
                             /\ q.product_title = row.product_title
                             /\ q.product_category = row.product_category

OrderDateCommitted(d, row) ==
    \E t \in d.dim_date : /\ t.date_id = row.order_date_id
                          /\ t.date = row.order_date

\* the rows a fact row can have been written from: those of the batch and
\* the one the earlier batch held
SourceRows ==
    {Concat(l_data)[i] : i \in 1..Len(Concat(l_data))}
        \cup (IF db0 = EmptyDB THEN {} ELSE {SeedRow})

\* the fact row f was written from the source row s
WrittenFrom(f, s) ==
    /\ f.order_id = s.order_id
    /\ f = FactRow([s EXCEPT !.customer_id = f.customer_id,
                             !.product_id = f.product_id,
                             !.order_date_id = f.order_date_id,
                             !.delivery_date_id = f.delivery_date_id])
    /\ CustomerCommitted(db, [s EXCEPT !.customer_id = f.customer_id])
    /\ ProductCommitted(db, [s EXCEPT !.product_id = f.product_id])
    /\ OrderDateCommitted(db, [s EXCEPT !.order_date_id = f.order_date_id])

\* the last row of the batch with the order id of f
LastRowOf(f) ==
    LET t == Concat(l_data)
        k == CHOOSE i \in 1..Len(t) :
                /\ t[i].order_id = f.order_id
                /\ \A j \in (i + 1)..Len(t) : t[j].order_id # f.order_id
    IN  t[k]

\* C20: in a load of a table the customer step comes first, then the
\* product step, then the date step, then the fact step: at each step the
\* id columns of the earlier steps are set and refer to committed dimension
\* rows with the row's business keys, and those of the later steps are not
\* set; so every row of fact_sales, after any sequence of loads, has a
\* customer_id, product_id and order_date_id of existing dimension rows
\* whose email_hash, title and category, and date are those of the row it
\* was written from, which after a load that returned is the last row of
\* the batch with that order id.
C20_FactsWrittenAfterTheirDimensions ==
    /\ l_pc \in {"customer", "product", "date", "fact"} =>
         \A i \in 1..Len(l_df) :
            /\ IF l_pc \in {"product", "date", "fact"}
               THEN CustomerCommitted(db, l_df[i])
               ELSE l_df[i].customer_id = NaN
            /\ IF l_pc \in {"date", "fact"}
               THEN ProductCommitted(db, l_df[i])
               ELSE l_df[i].product_id = NaN
            /\ IF l_pc = "fact"
               THEN OrderDateCommitted(db, l_df[i])
               ELSE l_df[i].order_date_id = NaN
    /\ l_pc # "idle" =>
         \A f \in db.fact_sales :
            /\ \E s \in SourceRows :
                  WrittenFrom(f, s @@ [customer_id |-> NaN, product_id |-> NaN,
                                       order_date_id |-> NaN,
                                       delivery_date_id |-> NaN])
            /\ (l_pc = "done" /\ \E i \in 1..Len(Concat(l_data)) :
                                     Concat(l_data)[i].order_id = f.order_id)
                  => WrittenFrom(f, LastRowOf(f)
                                      @@ [customer_id |-> NaN, product_id |-> NaN,
                                          order_date_id |-> NaN,
                                          delivery_date_id |-> NaN])

\* after a second load of a chunked batch on a database that held an order,
\* fact_sales has two orders of two customers
C20_Witness ==
    /\ l_pc = "done"
    /\ attempts = MaxAttempts
    /\ db0 # EmptyDB
    /\ Cardinality(db.fact_sales) = 2
    /\ Cardinality({f.customer_id : f \in db.fact_sales}) = 2

----------------------------------------------------------------------------
(* Properties of the load steps: failure, deduplication, surrogate keys *)

LoadSteps == {"customer", "product", "date", "fact"}

\* C21: a load step that raises leaves the four tables as they were when
\* the step began (nothing the step wrote is persisted, what earlier steps
\* committed stays), the call ends with the error, and no step of the call
\* runs after it: the database changes again only in a new call.
C21_FailedStepPersistsNothing ==
    [][ /\ (l_pc \in LoadSteps /\ l_pc' = "failed") =>
              /\ db' = db
              /\ l_error' # "none"
              /\ conn' = "closed"
        /\ l_pc = "failed" => (db' = db /\ l_pc' \in {"failed", "connect"})
      ]_vars

\* the last row of table t with the email hash of t[i]
LastWithEmailOf(t, i) ==
    t[CHOOSE k \in 1..Len(t) :
         /\ t[k].customer_email_hash = t[i].customer_email_hash
         /\ \A j \in (k + 1)..Len(t) :
               t[j].customer_email_hash # t[i].customer_email_hash]

\* C22: when the customer step of a table has committed, every row of the
\* table carries the customer_id of the dim_customer row of its email hash
\* (so rows with one email hash carry one id), and that row holds the name,
\* redacted phone and redacted address of the last row of the table with
\* that email hash.
C22_LastRowOfBatchWins ==
    l_pc = "product" =>
        \A i \in 1..Len(l_df) :
            \E c \in db.dim_customer :
                /\ c.email_hash = l_df[i].customer_email_hash
                /\ c.customer_id = l_df[i].customer_id
                /\ c.customer_name = LastWithEmailOf(l_df, i).customer_name
                /\ c.phone_redacted = LastWithEmailOf(l_df, i).customer_phone_redacted
                /\ c.address_redacted =
                       LastWithEmailOf(l_df, i).customer_address_redacted

\* C23: no step of any load deletes a dimension row or changes its
\* surrogate key: every customer, product and date row of before the step
\* is there after it with the same id and the same business key (only the
\* other attributes may differ); and the id a dimension step writes into a
\* row of the table whose key was in the dimension before the step is the
\* id that key had, so equal keys of different batches get the same id.
C23_DimensionKeysStable ==
    [][ /\ \A c \in db.dim_customer : \E c2 \in db'.dim_customer :
              c2.customer_id = c.customer_id /\ c2.email_hash = c.email_hash
        /\ \A q \in db.dim_product : \E q2 \in db'.dim_product :
              /\ q2.product_id = q.product_id
              /\ q2.product_title = q.product_title
              /\ q2.product_category = q.product_category
        /\ \A t \in db.dim_date : t \in db'.dim_date
        /\ Cardinality(db'.dim_customer) >= Cardinality(db.dim_customer)
        /\ Cardinality(db'.dim_product) >= Cardinality(db.dim_product)
        /\ (l_pc = "customer" /\ l_pc' = "product") =>
              \A i \in 1..Len(l_df') : \A c \in db.dim_customer :
                  c.email_hash = l_df'[i].customer_email_hash
                      => l_df'[i].customer_id = c.customer_id
        /\ (l_pc = "product" /\ l_pc' = "date") =>
              \A i \in 1..Len(l_df') : \A q \in db.dim_product :
                  (/\ q.product_title = l_df'[i].product_title
                   /\ q.product_category = l_df'[i].product_category)
                      => l_df'[i].product_id = q.product_id
        /\ (l_pc = "date" /\ l_pc' = "fact") =>
              \A i \in 1..Len(l_df') : \A t \in db.dim_date :
                  t.date = l_df'[i].order_date
                      => l_df'[i].order_date_id = t.date_id
      ]_vars

\* a batch has met a customer and a product that an earlier batch wrote:
\* their attributes were overwritten and the rows of the table carry the
\* ids the earlier batch was given
C23_Witness ==
    /\ l_pc = "date"
    /\ \E c0 \in db0.dim_customer, c \in db.dim_customer, i \in 1..Len(l_df) :
          /\ c.email_hash = c0.email_hash
          /\ c.customer_name # c0.customer_name
          /\ c.customer_id = c0.customer_id
          /\ l_df[i].customer_id = c0.customer_id
    /\ \E q0 \in db0.dim_product, q \in db.dim_product, i \in 1..Len(l_df) :
          /\ q.product_title = q0.product_title
          /\ q.product_category = q0.product_category
          /\ q.product_rating # q0.product_rating
          /\ q.product_id = q0.product_id
          /\ l_df[i].product_id = q0.product_id

\* the non-null order and delivery dates of a table
BatchDates(t) ==
    ({t[i].order_date : i \in 1..Len(t)}
        \cup {t[i].delivery_date : i \in 1..Len(t)}) \ {NaT}

\* C24: the date step of a load leaves in dim_date every row that was
\* there, adds rows only for dates of the table and touches no other
\* table; when it returns, dim_date has a row for every non-null order_date
\* and delivery_date of the table, each row of the table carries the ids of
\* the rows of its dates, and a row without delivery_date carries no
\* delivery_date_id.
C24_DateStepAddsOnly ==
    [][ l_pc = "date" =>
          /\ db.dim_date \subseteq db'.dim_date
          /\ {t.date : t \in db'.dim_date \ db.dim_date} \subseteq BatchDates(l_df)
          /\ db'.dim_customer = db.dim_customer
          /\ db'.dim_product = db.dim_product
          /\ db'.fact_sales = db.fact_sales
          /\ l_pc' = "fact" =>
                /\ BatchDates(l_df) \subseteq {t.date : t \in db'.dim_date}
                /\ \A i \in 1..Len(l_df') :
                      /\ \E t \in db'.dim_date :
                            /\ t.date = l_df'[i].order_date
                            /\ t.date_id = l_df'[i].order_date_id
                      /\ IF l_df'[i].delivery_date = NaT
                         THEN l_df'[i].delivery_date_id = NaN
                         ELSE \E t \in db'.dim_date :
                                /\ t.date = l_df'[i].delivery_date
                                /\ t.date_id = l_df'[i].delivery_date_id
      ]_vars

\* the date step has returned for a table with a row that has no
\* delivery_date and a row that has one, on a database that held a date
C24_Witness ==
    /\ l_pc = "fact"
    /\ db0.dim_date # {}
    /\ db0.dim_date # db.dim_date
    /\ \E i \in 1..Len(l_df) :
          /\ l_df[i].delivery_date = NaT
          /\ l_df[i].delivery_date_id = NaN
          /\ l_df[i].order_date_id # NaN
    /\ \E i \in 1..Len(l_df) : l_df[i].delivery_date_id # NaN

----------------------------------------------------------------------------
(* _process_chunked_data, called with the generator validate_data returns  *)
(* for a chunked reader: dags/src/pipeline.py:30-73 and                     *)
(* dags/src/validation/validator.py:111-140.  run_pipeline never calls it  *)
(* (see C14); SpecChunked calls it directly.                                *)

MaxChunkedRows == 3

\* pd.read_csv(..., chunksize=chunk_size): consecutive tables of chunk_size
\* rows, the last one with what is left
ChunksOf(t) ==
    [k \in 1..NumChunks(Len(t)) |->
        SubSeq(t, (k - 1) * chunk_size + 1,
               IF k * chunk_size < Len(t) THEN k * chunk_size ELSE Len(t))]

\* pd.concat(chunks, ignore_index=True)
RECURSIVE ConcatChunks(_)
ConcatChunks(chunks) ==
    IF chunks = <<>> THEN <<>>
    ELSE Head(chunks).rows \o ConcatChunks(Tail(chunks))

KLogged(op, k) == k_log' = Append(k_log, [op |-> op, chunk |-> k])

\* lines 51-55: the for loop pulls the next pair from the generator, which
\* reads the next chunk and validates it (validator.py:128-138)
ChunkValidate ==
    /\ k_pc = "collect"
    /\ k_next < Len(k_source)
    /\ LET k == k_next + 1
           res == _validate_single_dataframe(k_source[k], (k - 1) * chunk_size)
       IN  /\ k_next' = k
           /\ valid_chunks' = IF res.valid # <<>>
                              THEN Append(valid_chunks, [chunk |-> k, rows |-> res.valid])
                              ELSE valid_chunks
           /\ invalid_chunks' = IF res.invalid # <<>>
                                THEN Append(invalid_chunks,
                                            [chunk |-> k, rows |-> res.invalid])
                                ELSE invalid_chunks
           /\ KLogged("validate", k)
    /\ UNCHANGED <<k_pc, k_source, transformed_chunks, k_bucket, k_loaded, k_error>>
    /\ UNCHANGED <<vvars, pvars, lvars, cvars, nvars, tvars, rvars, qvars>>

\* lines 57-61: the generator is exhausted; one quarantine write for the
\* invalid rows of all chunks, when there are any
ChunkQuarantine ==
    /\ k_pc = "collect"
    /\ k_next = Len(k_source)
    /\ IF invalid_chunks # <<>>
       THEN \E ok \in BOOLEAN :
              IF ok
              THEN /\ k_bucket' = (QuarantineKey(<<"raw", "batch_1.csv">>) :>
                                      ConcatChunks(invalid_chunks)) @@ k_bucket
                   /\ k_pc' = IF valid_chunks = <<>> THEN "returned" ELSE "transform"
                   /\ KLogged("quarantine", 0)
                   /\ UNCHANGED k_error
              ELSE /\ k_pc' = "failed"
                   /\ k_error' = "S3Error"
                   /\ UNCHANGED <<k_bucket, k_log>>
       ELSE /\ k_pc' = IF valid_chunks = <<>> THEN "returned" ELSE "transform"
            /\ UNCHANGED <<k_bucket, k_log, k_error>>
    /\ UNCHANGED <<k_source, k_next, valid_chunks, invalid_chunks,
                   transformed_chunks, k_loaded>>
    /\ UNCHANGED <<vvars, pvars, lvars, cvars, nvars, tvars, rvars, qvars>>

\* lines 63-67: one pass of the transform loop
ChunkTransform ==
    /\ k_pc = "transform"
    /\ LET i == Len(transformed_chunks) + 1
       IN  /\ transformed_chunks' =
                Append(transformed_chunks,
                       [chunk |-> valid_chunks[i].chunk,
                        rows  |-> _transform_single_dataframe(valid_chunks[i].rows)])
           /\ KLogged("transform", valid_chunks[i].chunk)
           /\ k_pc' = IF i = Len(valid_chunks) THEN "load" ELSE "transform"
    /\ UNCHANGED <<k_source, k_next, valid_chunks, invalid_chunks, k_bucket,
                   k_loaded, k_error>>
    /\ UNCHANGED <<vvars, pvars, lvars, cvars, nvars, tvars, rvars, qvars>>

\* lines 69-72: one pass of the load loop, one upsert_data call per chunk
ChunkLoad ==
    /\ k_pc = "load"
    /\ LET i == Len(k_loaded) + 1
       IN  \E ok \in BOOLEAN :
             IF ok
             THEN /\ k_loaded' = Append(k_loaded, transformed_chunks[i].rows)
                  /\ KLogged("load", transformed_chunks[i].chunk)
                  /\ k_pc' = IF i = Len(transformed_chunks) THEN "returned" ELSE "load"
                  /\ UNCHANGED k_error
             ELSE /\ k_pc' = "failed"
                  /\ k_error' = "psycopg2.Error"
                  /\ UNCHANGED <<k_loaded, k_log>>
    /\ UNCHANGED <<k_source, k_next, valid_chunks, invalid_chunks,
                   transformed_chunks, k_bucket>>
    /\ UNCHANGED <<vvars, pvars, lvars, cvars, nvars, tvars, rvars, qvars>>

KInit ==
    /\ k_pc = "collect"
    /\ \E t \in SeqsUpTo(PipeRows, MaxChunkedRows) :
         /\ t # <<>>
         /\ k_source = ChunksOf(t)
    /\ k_next = 0
    /\ valid_chunks = <<>>
    /\ invalid_chunks = <<>>
    /\ transformed_chunks = <<>>
    /\ k_bucket = <<>>
    /\ k_loaded = <<>>
    /\ k_log = <<>>
    /\ k_error = "none"
    /\ VIdle
    /\ PIdle
    /\ LIdle
    /\ CIdle
    /\ NIdle
    /\ TIdle
    /\ RIdle
    /\ QIdle

KNext == ChunkValidate \/ ChunkQuarantine \/ ChunkTransform \/ ChunkLoad

SpecChunked == KInit /\ [][KNext]_vars

\* C25: a chunk after the first is validated only when the chunk before it,
\* if it had accepted rows, has been transformed and loaded.
C25_ChunkLoadedBeforeNextPulled ==
    \A j \in 1..Len(k_log) :
        (/\ k_log[j].op = "validate"
         /\ k_log[j].chunk > 1
         /\ \E v \in 1..Len(valid_chunks) : valid_chunks[v].chunk = k_log[j].chunk - 1)
            => \E i \in 1..(j - 1) :
                  /\ k_log[i].op = "load"
                  /\ k_log[i].chunk = k_log[j].chunk - 1

----------------------------------------------------------------------------
(* _redact_phone over bounded strings: transformer.py:149-164 *)

MaxPhoneLen == 6

\* digits and the characters phone numbers are written with
PhoneChars == {"1", "7", "-", " "}

RedactPhone ==
    /\ r_pc = "call"
    /\ r_result' = _redact_phone(r_phone)
    /\ r_pc' = "returned"
    /\ UNCHANGED r_phone
    /\ UNCHANGED <<vvars, pvars, lvars, cvars, nvars, tvars, kvars, qvars>>

RInit ==
    /\ r_pc = "call"
    /\ r_phone \in SeqsUpTo(PhoneChars, MaxPhoneLen)
    /\ r_result = <<>>
    /\ VIdle
    /\ PIdle
    /\ LIdle
    /\ CIdle
    /\ NIdle
    /\ TIdle
    /\ KIdle
    /\ QIdle

RNext == RedactPhone

SpecRedact == RInit /\ [][RNext]_vars

\* the positions of the digit characters of a string
DigitPositions(str) == {p \in 1..Len(str) : IsDigit(str[p])}

\* the n-th largest member of a set of positions
RECURSIVE NthLargest(_, _)
NthLargest(S, n) ==
    LET top == CHOOSE p \in S : \A q \in S : q <= p
    IN  IF n = 1 THEN top ELSE NthLargest(S \ {top}, n - 1)

----------------------------------------------------------------------------
(* The keys of a batch's quarantine and archive objects:                    *)
(* pipeline.py:134-138 and minio_client.py:256-262                          *)

MaxKeyDepth == 3

KeySegments == {"raw", "2024", "a.csv", "b.csv"}

\* object keys under raw/ of up to MaxKeyDepth segments
SourceKeys ==
    {k \in SeqsUpTo(KeySegments, MaxKeyDepth) : StartsWithRaw(k)}

ComputeKeys ==
    /\ q_pc = "call"
    /\ q_result' = [quarantine |-> [i \in 1..2 |-> QuarantineKey(q_keys[i])],
                    processed  |-> [i \in 1..2 |-> DestinationKey(q_keys[i])]]
    /\ q_pc' = "returned"
    /\ UNCHANGED q_keys
    /\ UNCHANGED <<vvars, pvars, lvars, cvars, nvars, tvars, kvars, rvars>>

QInit ==
    /\ q_pc = "call"
    /\ q_keys \in [1..2 -> SourceKeys]
    /\ q_result = <<>>
    /\ VIdle
    /\ PIdle
    /\ LIdle
    /\ CIdle
    /\ NIdle
    /\ TIdle
    /\ KIdle
    /\ RIdle

QNext == ComputeKeys

SpecKeys == QInit /\ [][QNext]_vars

\* C27: two different source keys under raw/ have different quarantine
\* keys, and the quarantine key of a source key is quarantine/ followed by
\* the source key without its leading raw/, the name the archive step puts
\* under processed/.
C27_QuarantineKeysKeepBatchesApart ==
    q_pc = "returned" =>
        /\ q_keys[1] # q_keys[2] => q_result.quarantine[1] # q_result.quarantine[2]
        /\ \A i \in 1..2 :
              /\ q_result.quarantine[i] = <<"quarantine">> \o Tail(q_keys[i])
              /\ Tail(q_result.quarantine[i]) = Tail(q_result.processed[i])

----------------------------------------------------------------------------
(* Properties of two concurrent loads *)

\* the database after the load of table a and then the load of table b
OneAfterTheOther(d, a, b) == UpsertSingle(UpsertSingle(d, a), b)

\* a key of a dimension row, by its surrogate id (NaN when there is none)
DateOf(d, id) ==
    IF \E t \in d.dim_date : t.date_id = id
    THEN (CHOOSE t \in d.dim_date : t.date_id = id).date ELSE NaT

\* what a database says, whatever surrogate ids it happened to give out:
\* the dimension rows without their ids and the fact rows with the business
\* keys their ids stand for
Content(d) ==
    [ dim_customer |-> { [c EXCEPT !.customer_id = NaN] : c \in d.dim_customer },
      dim_product  |-> { [q EXCEPT !.product_id = NaN] : q \in d.dim_product },
      dim_date     |-> { t.date : t \in d.dim_date },
      fact_sales   |->
          { [ fact      |-> [f EXCEPT !.customer_id = NaN, !.product_id = NaN,
                                      !.order_date_id = NaN,
                                      !.delivery_date_id = NaN],
              customers |-> { c.email_hash : c \in
                                {x \in d.dim_customer : x.customer_id = f.customer_id} },
              products  |-> { <<q.product_title, q.product_category>> : q \in
                                {x \in d.dim_product : x.product_id = f.product_id} },
              order_date    |-> DateOf(d, f.order_date_id),
              delivery_date |-> DateOf(d, f.delivery_date_id) ] :
            f \in d.fact_sales } ]

\* C28: when the two concurrent loads have both returned, the four tables
\* say what they say when one load runs after the other, in one of the two
\* orders, on the database the loads started from (surrogate ids apart).
C28_InterleavingSerializable ==
    (\A r \in Runs : c_pc[r] = "done") =>
        \E d \in InitialDBs :
            \/ Content(c_db) = Content(OneAfterTheOther(d, c_data[1], c_data[2]))
            \/ Content(c_db) = Content(OneAfterTheOther(d, c_data[2], c_data[1]))

----------------------------------------------------------------------------
(* Properties of move_processed_file *)

\* C29: after every step of a run the batch's object is under its source
\* key or under its archive key, with the content it had; the source object
\* is removed only when copy_object has returned in this run and the
\* archive object has the same content; and for a source key that does not
\* start with raw/ the archive step raises the ValueError with no copy and
\* no remove issued and the store as it was.
C29_ArchiveNeverLosesBatch ==
    [][ pc # "idle" =>
          /\ file_key \in DOMAIN bucket' \/ DestinationKey(file_key) \in DOMAIN bucket'
          /\ (file_key \in DOMAIN bucket /\ file_key \in DOMAIN bucket')
                => bucket'[file_key] = bucket[file_key]
          /\ DestinationKey(file_key) \in DOMAIN bucket'
                => bucket'[DestinationKey(file_key)] =
                      IF file_key \in DOMAIN bucket
                      THEN bucket[file_key]
                      ELSE bucket[DestinationKey(file_key)]
          /\ (file_key \in DOMAIN bucket /\ file_key \notin DOMAIN bucket')
                => /\ pc = "remove_object"
                   /\ Finished("copy_object")
                   /\ DestinationKey(file_key) \in DOMAIN bucket
                   /\ bucket[DestinationKey(file_key)] = bucket[file_key]
          /\ ~ StartsWithRaw(file_key) =>
                /\ \A i \in 1..Len(calls') :
                      calls'[i].step \notin {"copy_object", "remove_object"}
                /\ pc = "move_processed_file" =>
                      /\ bucket' = bucket
                      /\ pc' = "failed"
                      /\ error' = "ValueError: Source key"
      ]_vars

\* the copy was made and the removal failed: the batch is under both keys
C29_Witness ==
    /\ pc = "failed"
    /\ calls # <<>>
    /\ calls[Len(calls)] = [step |-> "remove_object", ok |-> FALSE]
    /\ file_key \in DOMAIN bucket
    /\ DestinationKey(file_key) \in DOMAIN bucket
    /\ bucket[DestinationKey(file_key)] = bucket[file_key]

----------------------------------------------------------------------------
(* Properties of upsert_fact_sales *)

\* the last row of table t with the order id of t[i]
LastWithOrderOf(t, i) ==
    t[CHOOSE k \in 1..Len(t) :
         /\ t[k].order_id = t[i].order_id
         /\ \A j \in (k + 1)..Len(t) : t[j].order_id # t[i].order_id]

\* C30: when the fact step of a table commits, fact_sales has for every
\* order id of the table exactly one row, with the foreign keys and the
\* measures of the last row of the table with that order id, whatever row
\* of that order it held before; the rows of other orders stay as they are.
C30_LastRowOfOrderWins ==
    [][ (l_pc = "fact" /\ l_pc' \in {"customer", "done"}) =>
          /\ \A i \in 1..Len(l_df) :
                {f \in db'.fact_sales : f.order_id = l_df[i].order_id}
                    = {FactRow(LastWithOrderOf(l_df, i))}
          /\ \A f \in db.fact_sales :
                (\A i \in 1..Len(l_df) : l_df[i].order_id # f.order_id)
                    => f \in db'.fact_sales
          /\ \A f \in db'.fact_sales :
                \/ f \in db.fact_sales
                \/ \E i \in 1..Len(l_df) : l_df[i].order_id = f.order_id
      ]_vars

\* a table with two rows of one order and different customers was loaded on
\* a database that held that order: the row of the order is the second's
C30_Witness ==
    /\ l_pc = "done"
    /\ Len(l_df) = 2
    /\ l_df[1].order_id = l_df[2].order_id
    /\ l_df[1].customer_id # l_df[2].customer_id
    /\ \E f \in db0.fact_sales : f.order_id = l_df[2].order_id
    /\ \A f \in db.fact_sales : f.customer_id = l_df[2].customer_id

============================================================================
